---- MODULE Spec2Model ----
(***************************************************************************)
(* Model of the mlx5 poll-mode driver's filter configuration plane:        *)
(* MAC address table (mlx5_mac.c) and promiscuous / allmulticast modes     *)
(* (mlx5_rxmode.c), acting on the hash RX queues of one device.            *)
(*                                                                         *)
(* A C function that mutates *priv becomes an operator that takes and      *)
(* returns a context record c:                                             *)
(*   c.priv   the device private structure (struct priv)                   *)
(*   c.n      number of ibv_exp_create_flow() calls made so far            *)
(*   c.fail   the create_flow calls (by number) that the hardware refuses  *)
(*   c.errno  the value errno holds after a refused call (0 = not set)     *)
(*   c.log    the verbs calls that changed hardware state, in order        *)
(*   c.ok     FALSE once an assert() of the source has failed              *)
(* Functions with a return value yield [c |-> context, ret |-> value].     *)
(***************************************************************************)
EXTENDS Integers, Sequences, FiniteSets, TLC

\* ------------------------------------------------------------------ bounds
MLX5_MAX_MAC_ADDRESSES == 2   \* elemof(priv->mac)
MaxVlanFilters == 2           \* elemof(priv->vlan_filter)
MaxHashRxqs == 2              \* priv->hash_rxqs_n of a started device

\* --------------------------------------------------------------- constants
Broadcast == 255              \* ff:ff:ff:ff:ff:ff
EINVAL == 22
EBUSY == 16
EADDRINUSE == 98
ENOMEM == 12
VLAN_MASK == 4095             \* htons(0xfff) mask of an exact VLAN match

NULL == <<>>
NoVlan == -1                  \* vlan_index -1u: flow without VLAN
NoCall == -1                  \* the priv_* function was not called

MacIdx == 0 .. (MLX5_MAX_MAC_ADDRESSES - 1)
VlanIdx == 0 .. (MaxVlanFilters - 1)
Addrs == {0, 1, Broadcast}   \* two unicast addresses and the broadcast one
ErrnoSet == {0, ENOMEM}

\* priv: struct priv; asserts_ok: no assertion failed and no invalid access
\* was made; threads: the callers of a device used by several threads (heap:
\* the objects that exist; uaf: freed memory was used; t: each caller's
\* position and locals), NoThreads where callbacks run one at a time
NoThreads == NULL
VARIABLES priv, asserts_ok, threads
vars == <<priv, asserts_ok, threads>>

HashIdx(p) == 0 .. (p.hash_rxqs_n - 1)

\* a zeroed struct hash_rxq as left by rte_calloc() in priv_create_hash_rxqs
hash_rxq_zero ==
  [mac_flow |-> [i \in MacIdx |-> [v \in VlanIdx |-> NULL]],
   mac_configured |-> [i \in MacIdx |-> FALSE],
   promisc_flow |-> NULL,
   allmulti_flow |-> NULL]

ctx(p, F, E) ==
  [priv |-> p, n |-> 0, fail |-> F, errno |-> E, log |-> <<>>, ok |-> TRUE,
   lock |-> <<>>]

\* priv_lock(priv) / priv_unlock(priv) on the device lock: c.lock is the
\* sequence of the operations the call has made on it
priv_lock(c) == [c EXCEPT !.lock = Append(@, "lock")]
priv_unlock(c) == [c EXCEPT !.lock = Append(@, "unlock")]

\* ibv_exp_create_flow(): the call number c.n + 1 fails iff the oracle says so
create_fails(c) == (c.n + 1) \in c.fail
create_errno(c) == IF c.errno # 0 THEN c.errno ELSE EINVAL

\* ------------------------------------------------------------- mlx5_mac.c
\* mutant of hash_rxq_del_flow: the flow is destroyed, the handle is not cleared
hash_rxq_del_flow_stale(c, q, mac_index, vlan_index) ==
  [c EXCEPT !.ok = @ /\ c.priv.hash_rxqs[q].mac_flow[mac_index][vlan_index] # NULL,
            !.log = Append(@, <<"destroy_mac", q, mac_index, vlan_index>>)]

hash_rxq_del_flow(c, q, mac_index, vlan_index) ==
  LET present == c.priv.hash_rxqs[q].mac_flow[mac_index][vlan_index] # NULL
  IN [c EXCEPT !.ok = @ /\ present,
               !.log = Append(@, <<"destroy_mac", q, mac_index, vlan_index>>),
               !.priv.hash_rxqs[q].mac_flow[mac_index][vlan_index] = NULL]

RECURSIVE hash_rxq_mac_addr_del_loop(_, _, _, _, _)
hash_rxq_mac_addr_del_loop(c, q, mac_index, i, vlans) ==
  IF i = MaxVlanFilters
  THEN LET c1 == IF vlans = 0 THEN hash_rxq_del_flow(c, q, mac_index, 0) ELSE c
       IN [c1 EXCEPT !.priv.hash_rxqs[q].mac_configured[mac_index] = FALSE]
  ELSE IF ~c.priv.vlan_filter[i].enabled
       THEN hash_rxq_mac_addr_del_loop(c, q, mac_index, i + 1, vlans)
       ELSE hash_rxq_mac_addr_del_loop(hash_rxq_del_flow(c, q, mac_index, i),
                                       q, mac_index, i + 1, vlans + 1)

\* mutant of hash_rxq_mac_addr_del: the bit is cleared, the flows are kept
hash_rxq_mac_addr_del_flag_only(c, q, mac_index) ==
  [c EXCEPT !.priv.hash_rxqs[q].mac_configured[mac_index] = FALSE]

hash_rxq_mac_addr_del(c, q, mac_index) ==
  IF ~c.priv.hash_rxqs[q].mac_configured[mac_index]
  THEN c
  ELSE hash_rxq_mac_addr_del_loop(c, q, mac_index, 0, 0)

RECURSIVE hash_rxq_mac_addrs_del_loop(_, _, _)
hash_rxq_mac_addrs_del_loop(c, q, i) ==
  IF i = MLX5_MAX_MAC_ADDRESSES
  THEN c
  ELSE hash_rxq_mac_addrs_del_loop(hash_rxq_mac_addr_del(c, q, i), q, i + 1)

hash_rxq_mac_addrs_del(c, q) == hash_rxq_mac_addrs_del_loop(c, q, 0)

RECURSIVE priv_mac_addr_del_loop(_, _, _)
priv_mac_addr_del_loop(c, mac_index, i) ==
  IF i = c.priv.hash_rxqs_n
  THEN [c EXCEPT !.priv.mac_configured[mac_index] = FALSE]
  ELSE priv_mac_addr_del_loop(hash_rxq_mac_addr_del(c, i, mac_index), mac_index, i + 1)

\* mutant of priv_mac_addr_del: the slot is left configured
priv_mac_addr_del_noop(c, mac_index) == c

priv_mac_addr_del(c, mac_index) ==
  IF ~c.priv.mac_configured[mac_index]
  THEN c
  ELSE priv_mac_addr_del_loop(c, mac_index, 0)

\* mutant of priv_mac_addrs_disable: only the first hash RX queue is emptied
priv_mac_addrs_disable_first(c) ==
  IF c.priv.hash_rxqs_n = 0 THEN c ELSE hash_rxq_mac_addrs_del(c, 0)

RECURSIVE priv_mac_addrs_disable_loop(_, _)
priv_mac_addrs_disable_loop(c, i) ==
  IF i = c.priv.hash_rxqs_n
  THEN c
  ELSE priv_mac_addrs_disable_loop(hash_rxq_mac_addrs_del(c, i), i + 1)

priv_mac_addrs_disable(c) == priv_mac_addrs_disable_loop(c, 0)

\* mutant of flow_spec_eth: the VLAN tag is never matched
flow_spec_eth_wildcard(p, mac_index, vlan_index) == <<"eth", p.mac[mac_index], 0, 0>>

\* the Ethernet flow specification built at mlx5_mac.c:272-288
flow_spec_eth(p, mac_index, vlan_index) ==
  <<"eth", p.mac[mac_index],
    IF vlan_index # NoVlan THEN p.vlan_filter[vlan_index].id ELSE 0,
    IF vlan_index # NoVlan THEN VLAN_MASK ELSE 0>>

hash_rxq_add_flow(c, q, mac_index, vlan_index) ==
  IF create_fails(c)
  THEN [c |-> [c EXCEPT !.n = @ + 1], ret |-> create_errno(c)]
  ELSE LET vi == IF vlan_index = NoVlan THEN 0 ELSE vlan_index
       IN [c |-> [c EXCEPT !.n = @ + 1,
                           !.ok = @ /\ c.priv.hash_rxqs[q].mac_flow[mac_index][vi] = NULL,
                           !.log = Append(@, <<"create_mac", q, mac_index, vi>>),
                           !.priv.hash_rxqs[q].mac_flow[mac_index][vi] =
                               flow_spec_eth(c.priv, mac_index, vlan_index)],
           ret |-> 0]

\* mutant of hash_rxq_mac_addr_add_rollback: the VLAN flows already created stay
hash_rxq_mac_addr_add_rollback_skip(c, q, mac_index, i) == c

\* rollback loop of hash_rxq_mac_addr_add: while (i != 0) if (enabled[--i]) del
RECURSIVE hash_rxq_mac_addr_add_rollback(_, _, _, _)
hash_rxq_mac_addr_add_rollback(c, q, mac_index, i) ==
  IF i = 0
  THEN c
  ELSE hash_rxq_mac_addr_add_rollback(
         IF c.priv.vlan_filter[i - 1].enabled
         THEN hash_rxq_del_flow(c, q, mac_index, i - 1)
         ELSE c,
         q, mac_index, i - 1)

RECURSIVE hash_rxq_mac_addr_add_loop(_, _, _, _, _)
hash_rxq_mac_addr_add_loop(c, q, mac_index, i, vlans) ==
  IF i = MaxVlanFilters
  THEN LET r == IF vlans = 0
                THEN hash_rxq_add_flow(c, q, mac_index, NoVlan)
                ELSE [c |-> c, ret |-> 0]
       IN IF r.ret # 0
          THEN r
          ELSE [c |-> [r.c EXCEPT !.priv.hash_rxqs[q].mac_configured[mac_index] = TRUE],
                ret |-> 0]
  ELSE IF ~c.priv.vlan_filter[i].enabled
       THEN hash_rxq_mac_addr_add_loop(c, q, mac_index, i + 1, vlans)
       ELSE LET r == hash_rxq_add_flow(c, q, mac_index, i)
            IN IF r.ret = 0
               THEN hash_rxq_mac_addr_add_loop(r.c, q, mac_index, i + 1, vlans + 1)
               ELSE [c |-> hash_rxq_mac_addr_add_rollback(r.c, q, mac_index, i),
                     ret |-> r.ret]

hash_rxq_mac_addr_add(c, q, mac_index) ==
  hash_rxq_mac_addr_add_loop(
    IF c.priv.hash_rxqs[q].mac_configured[mac_index]
    THEN hash_rxq_mac_addr_del(c, q, mac_index)
    ELSE c,
    q, mac_index, 0, 0)

\* rollback loop of hash_rxq_mac_addrs_add: while (i != 0) del(--i)
RECURSIVE hash_rxq_mac_addrs_add_rollback(_, _, _)
hash_rxq_mac_addrs_add_rollback(c, q, i) ==
  IF i = 0
  THEN c
  ELSE hash_rxq_mac_addrs_add_rollback(hash_rxq_mac_addr_del(c, q, i - 1), q, i - 1)

RECURSIVE hash_rxq_mac_addrs_add_loop(_, _, _)
hash_rxq_mac_addrs_add_loop(c, q, i) ==
  IF i = MLX5_MAX_MAC_ADDRESSES
  THEN [c |-> c, ret |-> 0]
  ELSE IF ~c.priv.mac_configured[i]
       THEN hash_rxq_mac_addrs_add_loop(c, q, i + 1)
       ELSE LET r == hash_rxq_mac_addr_add(c, q, i)
            IN IF r.ret = 0
               THEN hash_rxq_mac_addrs_add_loop(r.c, q, i + 1)
               ELSE [c |-> hash_rxq_mac_addrs_add_rollback(r.c, q, i), ret |-> r.ret]

hash_rxq_mac_addrs_add(c, q) == hash_rxq_mac_addrs_add_loop(c, q, 0)

\* mutants of priv_mac_addr_in_use: no check at all; a check of the wrong slot
priv_mac_addr_in_use_never(p, mac_index, mac_addr) == FALSE

priv_mac_addr_in_use_self(p, mac_index, mac_addr) ==
  \E i \in MacIdx : i = mac_index /\ p.mac_configured[i] /\ p.mac[i] = mac_addr

\* first loop of priv_mac_addr_add: is the address configured at another index?
priv_mac_addr_in_use(p, mac_index, mac_addr) ==
  \E i \in MacIdx : i # mac_index /\ p.mac_configured[i] /\ p.mac[i] = mac_addr

\* mutant of priv_mac_addr_add_rollback: the queues already done are left alone
priv_mac_addr_add_rollback_skip(c, mac_index, i) == c

\* rollback loop of priv_mac_addr_add: while (i != 0) del(hash_rxqs[--i])
RECURSIVE priv_mac_addr_add_rollback(_, _, _)
priv_mac_addr_add_rollback(c, mac_index, i) ==
  IF i = 0
  THEN c
  ELSE priv_mac_addr_add_rollback(hash_rxq_mac_addr_del(c, i - 1, mac_index),
                                  mac_index, i - 1)

RECURSIVE priv_mac_addr_add_loop(_, _, _)
priv_mac_addr_add_loop(c, mac_index, i) ==
  IF i = c.priv.hash_rxqs_n
  THEN [c |-> [c EXCEPT !.priv.mac_configured[mac_index] = TRUE], ret |-> 0]
  ELSE LET r == hash_rxq_mac_addr_add(c, i, mac_index)
       IN IF r.ret = 0
          THEN priv_mac_addr_add_loop(r.c, mac_index, i + 1)
          ELSE [c |-> priv_mac_addr_add_rollback(r.c, mac_index, i), ret |-> r.ret]

priv_mac_addr_add(c, mac_index, mac_addr) ==
  IF priv_mac_addr_in_use(c.priv, mac_index, mac_addr)
  THEN [c |-> c, ret |-> EADDRINUSE]
  ELSE LET c1 == IF c.priv.mac_configured[mac_index]
                 THEN priv_mac_addr_del(c, mac_index)
                 ELSE c
           c2 == [c1 EXCEPT !.priv.mac[mac_index] = mac_addr]
       IN IF ~c2.priv.started
          THEN [c |-> [c2 EXCEPT
                         !.ok = @ /\ \A q \in HashIdx(c2.priv) :
                                       ~c2.priv.hash_rxqs[q].mac_configured[mac_index],
                         !.priv.mac_configured[mac_index] = TRUE],
                ret |-> 0]
          ELSE priv_mac_addr_add_loop(c2, mac_index, 0)

\* ---------------------------------------------------------- mlx5_rxmode.c
PROMISC_FLOW == <<"promisc">>       \* flow attr without MAC specification
ALLMULTI_FLOW == <<"mc_default">>   \* IBV_EXP_FLOW_ATTR_MC_DEFAULT

\* mutant of hash_rxq_promiscuous_enable: no check for an existing flow
hash_rxq_promiscuous_enable_nocheck(c, q) ==
  IF c.priv.vf
  THEN [c |-> c, ret |-> 0]
  ELSE IF create_fails(c)
       THEN [c |-> [c EXCEPT !.n = @ + 1], ret |-> create_errno(c)]
       ELSE [c |-> [c EXCEPT !.n = @ + 1,
                             !.log = Append(@, <<"create_promisc", q>>),
                             !.priv.hash_rxqs[q].promisc_flow = PROMISC_FLOW],
             ret |-> 0]

hash_rxq_promiscuous_enable(c, q) ==
  IF c.priv.vf
  THEN [c |-> c, ret |-> 0]
  ELSE IF c.priv.hash_rxqs[q].promisc_flow # NULL
       THEN [c |-> c, ret |-> EBUSY]
       ELSE IF create_fails(c)
            THEN [c |-> [c EXCEPT !.n = @ + 1], ret |-> create_errno(c)]
            ELSE [c |-> [c EXCEPT !.n = @ + 1,
                                  !.log = Append(@, <<"create_promisc", q>>),
                                  !.priv.hash_rxqs[q].promisc_flow = PROMISC_FLOW],
                  ret |-> 0]

hash_rxq_promiscuous_disable(c, q) ==
  IF c.priv.vf
  THEN c
  ELSE IF c.priv.hash_rxqs[q].promisc_flow = NULL
       THEN c
       ELSE [c EXCEPT !.log = Append(@, <<"destroy_promisc", q>>),
                      !.priv.hash_rxqs[q].promisc_flow = NULL]

\* mutant of priv_promiscuous_enable_rollback: nothing is rolled back
priv_promiscuous_enable_rollback_skip(c, i) == c

\* rollback loop of priv_promiscuous_enable (mlx5_rxmode.c:132-138)
RECURSIVE priv_promiscuous_enable_rollback(_, _)
priv_promiscuous_enable_rollback(c, i) ==
  IF i = 0
  THEN c
  ELSE LET c1 == hash_rxq_promiscuous_disable(c, i - 1)
           c2 == IF c1.priv.started THEN hash_rxq_mac_addrs_add(c1, i - 1).c ELSE c1
       IN priv_promiscuous_enable_rollback(c2, i - 1)

RECURSIVE priv_promiscuous_enable_loop(_, _)
priv_promiscuous_enable_loop(c, i) ==
  IF i = c.priv.hash_rxqs_n
  THEN [c |-> [c EXCEPT !.priv.promisc = TRUE], ret |-> 0]
  ELSE LET c1 == hash_rxq_mac_addrs_del(c, i)
           r == hash_rxq_promiscuous_enable(c1, i)
       IN IF r.ret = 0
          THEN priv_promiscuous_enable_loop(r.c, i + 1)
          ELSE [c |-> priv_promiscuous_enable_rollback(r.c, i), ret |-> r.ret]

priv_promiscuous_enable(c) ==
  IF c.priv.promisc
  THEN [c |-> c, ret |-> 0]
  ELSE priv_promiscuous_enable_loop(c, 0)

RECURSIVE priv_promiscuous_disable_loop(_, _)
priv_promiscuous_disable_loop(c, i) ==
  IF i = c.priv.hash_rxqs_n
  THEN [c EXCEPT !.priv.promisc = FALSE]
  ELSE LET c1 == hash_rxq_promiscuous_disable(c, i)
           c2 == IF c1.priv.started THEN hash_rxq_mac_addrs_add(c1, i).c ELSE c1
       IN priv_promiscuous_disable_loop(c2, i + 1)

\* mutant of priv_promiscuous_disable: no guard on the promiscuous flag
priv_promiscuous_disable_always(c) == priv_promiscuous_disable_loop(c, 0)

priv_promiscuous_disable(c) ==
  IF ~c.priv.promisc
  THEN c
  ELSE priv_promiscuous_disable_loop(c, 0)

hash_rxq_allmulticast_enable(c, q) ==
  IF c.priv.hash_rxqs[q].allmulti_flow # NULL
  THEN [c |-> c, ret |-> EBUSY]
  ELSE IF create_fails(c)
       THEN [c |-> [c EXCEPT !.n = @ + 1], ret |-> create_errno(c)]
       ELSE [c |-> [c EXCEPT !.n = @ + 1,
                             !.log = Append(@, <<"create_allmulti", q>>),
                             !.priv.hash_rxqs[q].allmulti_flow = ALLMULTI_FLOW],
             ret |-> 0]

\* mutant of hash_rxq_allmulticast_disable: the promiscuous flow goes as well
hash_rxq_allmulticast_disable_both(c, q) ==
  [c EXCEPT !.priv.hash_rxqs[q].allmulti_flow = NULL,
            !.priv.hash_rxqs[q].promisc_flow = NULL]

hash_rxq_allmulticast_disable(c, q) ==
  IF c.priv.hash_rxqs[q].allmulti_flow = NULL
  THEN c
  ELSE [c EXCEPT !.log = Append(@, <<"destroy_allmulti", q>>),
                 !.priv.hash_rxqs[q].allmulti_flow = NULL]

\* mutant of priv_allmulticast_enable_rollback: the flows already created stay
priv_allmulticast_enable_rollback_skip(c, i) == c

\* rollback loop of priv_allmulticast_enable (mlx5_rxmode.c:288-291)
RECURSIVE priv_allmulticast_enable_rollback(_, _)
priv_allmulticast_enable_rollback(c, i) ==
  IF i = 0
  THEN c
  ELSE priv_allmulticast_enable_rollback(hash_rxq_allmulticast_disable(c, i - 1), i - 1)

RECURSIVE priv_allmulticast_enable_loop(_, _)
priv_allmulticast_enable_loop(c, i) ==
  IF i = c.priv.hash_rxqs_n
  THEN [c |-> [c EXCEPT !.priv.allmulti = TRUE], ret |-> 0]
  ELSE LET r == hash_rxq_allmulticast_enable(c, i)
       IN IF r.ret = 0
          THEN priv_allmulticast_enable_loop(r.c, i + 1)
          ELSE [c |-> priv_allmulticast_enable_rollback(r.c, i), ret |-> r.ret]

priv_allmulticast_enable(c) ==
  IF c.priv.allmulti
  THEN [c |-> c, ret |-> 0]
  ELSE priv_allmulticast_enable_loop(c, 0)

RECURSIVE priv_allmulticast_disable_loop(_, _)
priv_allmulticast_disable_loop(c, i) ==
  IF i = c.priv.hash_rxqs_n
  THEN [c EXCEPT !.priv.allmulti = FALSE]
  ELSE priv_allmulticast_disable_loop(hash_rxq_allmulticast_disable(c, i), i + 1)

priv_allmulticast_disable(c) ==
  IF ~c.priv.allmulti
  THEN c
  ELSE priv_allmulticast_disable_loop(c, 0)

\* ------------------------------------------------------------- the device
\* struct priv of a device: zeroed MAC table, no flows; a started device has
\* its hash RX queues, a stopped one has none (part_000:328-331, 517-519).
priv_init(is_started, is_vf, vlans) ==
  [mac |-> [i \in MacIdx |-> 0],
   mac_configured |-> [i \in MacIdx |-> FALSE],
   vlan_filter |-> [v \in VlanIdx |-> [enabled |-> v \in vlans, id |-> v + 1]],
   hash_rxqs_n |-> IF is_started THEN MaxHashRxqs ELSE 0,
   hash_rxqs |-> [q \in 0 .. ((IF is_started THEN MaxHashRxqs ELSE 0) - 1) |-> hash_rxq_zero],
   promisc |-> FALSE,
   allmulti |-> FALSE,
   promisc_req |-> FALSE,
   allmulti_req |-> FALSE,
   started |-> is_started,
   vf |-> is_vf]

Init ==
  /\ \E is_started \in BOOLEAN, is_vf \in BOOLEAN, vlans \in SUBSET VlanIdx :
       priv = priv_init(is_started, is_vf, vlans)
  /\ asserts_ok = TRUE
  /\ threads = NoThreads

\* ---------------------------------------------------- the DPDK callbacks
\* "end: priv_unlock(priv);" and the priv_unlock(priv) before a return
callback_end(r) == [c |-> priv_unlock(r.c), ret |-> r.ret]

\* mutant of mlx5_mac_addr_remove: the refusals return without priv_unlock()
mlx5_mac_addr_remove_held(c, index) ==
  IF index >= MLX5_MAX_MAC_ADDRESSES
  THEN [c |-> priv_lock(c), ret |-> NoCall]
  ELSE IF c.priv.mac[index] = Broadcast
       THEN [c |-> priv_lock(c), ret |-> NoCall]
       ELSE callback_end([c |-> priv_mac_addr_del(priv_lock(c), index), ret |-> 0])

mlx5_mac_addr_remove(c, index) ==
  callback_end(
    IF index >= MLX5_MAX_MAC_ADDRESSES
    THEN [c |-> priv_lock(c), ret |-> NoCall]
    ELSE IF c.priv.mac[index] = Broadcast
         THEN [c |-> priv_lock(c), ret |-> NoCall]
         ELSE [c |-> priv_mac_addr_del(priv_lock(c), index), ret |-> 0])

\* mutant of mlx5_mac_addr_add: the broadcast address is not refused
mlx5_mac_addr_add_any(c, mac_addr, index) ==
  callback_end(
    IF index >= MLX5_MAX_MAC_ADDRESSES
    THEN [c |-> priv_lock(c), ret |-> NoCall]
    ELSE priv_mac_addr_add(priv_lock(c), index, mac_addr))

mlx5_mac_addr_add(c, mac_addr, index) ==
  callback_end(
    IF index >= MLX5_MAX_MAC_ADDRESSES
    THEN [c |-> priv_lock(c), ret |-> NoCall]
    ELSE IF mac_addr = Broadcast
         THEN [c |-> priv_lock(c), ret |-> NoCall]
         ELSE priv_mac_addr_add(priv_lock(c), index, mac_addr))

mlx5_promiscuous_enable(c) ==
  callback_end(priv_promiscuous_enable([priv_lock(c) EXCEPT !.priv.promisc_req = TRUE]))

mlx5_promiscuous_disable(c) ==
  callback_end(
    [c |-> priv_promiscuous_disable([priv_lock(c) EXCEPT !.priv.promisc_req = FALSE]),
     ret |-> 0])

mlx5_allmulticast_enable(c) ==
  callback_end(priv_allmulticast_enable([priv_lock(c) EXCEPT !.priv.allmulti_req = TRUE]))

mlx5_allmulticast_disable(c) ==
  callback_end(
    [c |-> priv_allmulticast_disable([priv_lock(c) EXCEPT !.priv.allmulti_req = FALSE]),
     ret |-> 0])

\* one callback, by name, run on device state p under the oracle (F, E)
callback(p, op, mac_addr, index, F, E) ==
  CASE op = "mac_addr_add" -> mlx5_mac_addr_add(ctx(p, F, E), mac_addr, index)
    [] op = "mac_addr_remove" -> mlx5_mac_addr_remove(ctx(p, F, E), index)
    [] op = "promiscuous_enable" -> mlx5_promiscuous_enable(ctx(p, F, E))
    [] op = "promiscuous_disable" -> mlx5_promiscuous_disable(ctx(p, F, E))
    [] op = "allmulticast_enable" -> mlx5_allmulticast_enable(ctx(p, F, E))
    [] op = "allmulticast_disable" -> mlx5_allmulticast_disable(ctx(p, F, E))

SetMax(S) == IF S = {} THEN 0 ELSE CHOOSE x \in S : \A y \in S : y <= x

\* the outcomes of one callback on device state p under every oracle that
\* extends F: any create_flow call the callback really makes may be refused
RECURSIVE Outcomes(_, _, _, _, _, _)
Outcomes(p, op, mac_addr, index, F, E) ==
  LET r == callback(p, op, mac_addr, index, F, E)
  IN {r} \cup UNION {Outcomes(p, op, mac_addr, index, F \cup {f}, E) :
                       f \in (SetMax(F) + 1) .. r.c.n}

\* a callback returns void: the value of errno never reaches the device state
Call(op, mac_addr, index) ==
  /\ asserts_ok
  /\ \E r \in Outcomes(priv, op, mac_addr, index, {}, 0) :
       /\ priv' = r.c.priv
       /\ asserts_ok' = r.c.ok
       /\ UNCHANGED threads

MacAddrAdd ==
  \E mac_addr \in Addrs, index \in 0 .. MLX5_MAX_MAC_ADDRESSES :
    Call("mac_addr_add", mac_addr, index)

MacAddrRemove ==
  \E index \in 0 .. MLX5_MAX_MAC_ADDRESSES : Call("mac_addr_remove", 0, index)

PromiscuousEnable == Call("promiscuous_enable", 0, 0)
PromiscuousDisable == Call("promiscuous_disable", 0, 0)
AllmulticastEnable == Call("allmulticast_enable", 0, 0)
AllmulticastDisable == Call("allmulticast_disable", 0, 0)

Next ==
  \/ MacAddrAdd
  \/ MacAddrRemove
  \/ PromiscuousEnable
  \/ PromiscuousDisable
  \/ AllmulticastEnable
  \/ AllmulticastDisable

Spec == Init /\ [][Next]_vars

\* =================================================================== RX
\* Model of the receive side (rxq.c): hash RX queues with their indirection
\* tables, and RX queue setup.  The same variable priv holds the fields of
\* struct priv (and of the rte_eth_dev it belongs to) that this code uses.
\* Every object obtained from Verbs, from the mempool or from rte_calloc() is
\* a handle <<kind, id>>; the context carries in c.live the handles that are
\* currently allocated, so that a double release clears c.ok.

\* ------------------------------------------------------------------ bounds
MaxRxqs == 3                  \* largest priv->rxqs_n
MaxIndTableSize == 8          \* largest priv->ind_table_max_size
MaxDescFactor == 1            \* largest desc / MLX5_PMD_SGE_WR_N
MaxRehashRxqs == 2            \* largest priv->rxqs_n of a reconfigured device
MaxThreads == 2               \* threads that call into one device
MaxCalls == 2                 \* calls each thread makes
MbufLen == 2176               \* buf_len of the mbufs of the mempool

HASH_RXQ_IPV6 == TRUE         \* #ifdef HASH_RXQ_IPV6
ERANGE == 34
EIO == 5
EEXIST == 17
EOVERFLOW == 75
MLX5_PMD_SGE_WR_N == 4
RTE_PKTMBUF_HEADROOM == 128
ENOBUFS == 105
NoLimit == -1                 \* .max_size = -1u

rx_ctx(p, live, F, E) ==
  [priv |-> p, n |-> 0, fail |-> F, errno |-> E, log |-> <<>>, ok |-> TRUE,
   lock |-> <<>>, live |-> live]

\* a new object of the given kind: the lowest identifier not in use
obj_new(c, kind) ==
  <<kind, CHOOSE i \in 0 .. Cardinality(c.live) :
            /\ <<kind, i>> \notin c.live
            /\ \A j \in 0 .. (i - 1) : <<kind, j>> \in c.live>>

\* a fallible call that returned object h, created with attributes attr
obj_create_attr(c, h, attr) ==
  [c EXCEPT !.n = @ + 1, !.live = @ \cup {h}, !.log = Append(@, <<"create", h, attr>>)]

obj_create(c, h) == obj_create_attr(c, h, NULL)

\* a fallible call that returned NULL
obj_refused(c) == [c EXCEPT !.n = @ + 1]

\* claim_zero(destroy(h)) / rte_free(h)
obj_destroy(c, h) ==
  [c EXCEPT !.ok = @ /\ h \in c.live,
            !.live = @ \ {h},
            !.log = Append(@, <<"destroy", h>>)]

\* a & b on unsigned int
RECURSIVE BitAnd(_, _)
BitAnd(a, b) ==
  IF a = 0 \/ b = 0
  THEN 0
  ELSE (a % 2) * (b % 2) + 2 * BitAnd(a \div 2, b \div 2)

\* (rxqs_n & (rxqs_n - 1)); 0 - 1 wraps to UINT_MAX and 0 & UINT_MAX = 0
NotPowerOfTwo(v) == IF v = 0 THEN FALSE ELSE BitAnd(v, v - 1) # 0

RECURSIVE log2above_loop(_, _, _)
log2above_loop(v, l, r) ==
  IF v \div 2 = 0
  THEN l + r
  ELSE log2above_loop(v \div 2, l + 1, IF v % 2 = 1 THEN 1 ELSE r)

log2above(v) == log2above_loop(v, 0, 0)

RECURSIVE Shl1(_)
Shl1(l) == IF l = 0 THEN 1 ELSE 2 * Shl1(l - 1)

\* ind_table_init[], ind_table_init_rss[], ind_table_init_no_rss[]
IND_TABLE_GENERIC ==
  [max_size |-> NoLimit,
   hash_types |-> IF HASH_RXQ_IPV6
                  THEN <<"TCPv4", "UDPv4", "IPv4", "TCPv6", "UDPv6", "IPv6">>
                  ELSE <<"TCPv4", "UDPv4", "IPv4">>]
IND_TABLE_DRAIN == [max_size |-> 1, hash_types |-> <<"ETH">>]
ind_table_init_rss == <<IND_TABLE_GENERIC, IND_TABLE_DRAIN>>
ind_table_init_no_rss == <<IND_TABLE_DRAIN>>

\* mutant of hash_rxqs_wqs_n: always the next power of two above rxqs_n
hash_rxqs_wqs_n_rounded(p) == Shl1(log2above(p.rxqs_n))

\* unsigned int wqs_n = 1 << log2above(...)
hash_rxqs_wqs_n(p) ==
  Shl1(log2above(IF NotPowerOfTwo(p.rxqs_n) THEN p.ind_table_max_size ELSE p.rxqs_n))

\* mutant of hash_rxqs_fill_wqs: the table is padded with the last queue
hash_rxqs_fill_wqs_last(c, wqs, wqs_n, i, j) ==
  [c |-> c,
   wqs |-> [x \in 1 .. wqs_n |->
              LET rxq == c.priv.rxqs[IF x - 1 < c.priv.rxqs_n THEN x - 1
                                     ELSE c.priv.rxqs_n - 1]
              IN IF rxq = NULL THEN NULL ELSE rxq.s.wq]]

\* for (i = 0, j = 0; i != wqs_n; ++i) { wqs[i] = rxqs[j]->wq; if (++j == rxqs_n) j = 0; }
\* a queue that was never set up is a NULL pointer: following it is a crash
RECURSIVE hash_rxqs_fill_wqs(_, _, _, _, _)
hash_rxqs_fill_wqs(c, wqs, wqs_n, i, j) ==
  IF i = wqs_n
  THEN [c |-> c, wqs |-> wqs]
  ELSE LET rxq == c.priv.rxqs[j]
           c1 == IF rxq = NULL THEN [c EXCEPT !.ok = FALSE] ELSE c
           wq == IF rxq = NULL THEN NULL ELSE rxq.s.wq
       IN hash_rxqs_fill_wqs(c1, Append(wqs, wq), wqs_n, i + 1,
                             IF j + 1 = c.priv.rxqs_n THEN 0 ELSE j + 1)

RECURSIVE hash_rxqs_count(_, _)
hash_rxqs_count(init, i) ==
  IF i > Len(init) THEN 0 ELSE Len(init[i].hash_types) + hash_rxqs_count(init, i + 1)

\* mutant of hash_rxqs_error_qps: the container is freed, its QPs are not
hash_rxqs_error_qps_leak(c, hash_rxqs, i) == obj_destroy(c, hash_rxqs.mem)

\* error: label of priv_create_hash_rxqs; hash_rxqs and ind_tables are the
\* local containers (NULL when not allocated, entries NULL when not created)
RECURSIVE hash_rxqs_error_qps(_, _, _)
hash_rxqs_error_qps(c, hash_rxqs, i) ==
  IF i > Len(hash_rxqs.at)
  THEN obj_destroy(c, hash_rxqs.mem)
  ELSE hash_rxqs_error_qps(
         IF hash_rxqs.at[i].qp = NULL THEN c ELSE obj_destroy(c, hash_rxqs.at[i].qp),
         hash_rxqs, i + 1)

RECURSIVE hash_rxqs_error_tables(_, _, _)
hash_rxqs_error_tables(c, ind_tables, j) ==
  IF j > Len(ind_tables.at)
  THEN obj_destroy(c, ind_tables.mem)
  ELSE hash_rxqs_error_tables(
         IF ind_tables.at[j] = NULL THEN c ELSE obj_destroy(c, ind_tables.at[j].h),
         ind_tables, j + 1)

hash_rxqs_error(c, hash_rxqs, ind_tables, err) ==
  LET c1 == IF hash_rxqs # NULL THEN hash_rxqs_error_qps(c, hash_rxqs, 1) ELSE c
      c2 == IF ind_tables # NULL THEN hash_rxqs_error_tables(c1, ind_tables, 1) ELSE c1
  IN [c |-> c2, ret |-> err]

\* a zeroed struct hash_rxq of the container allocated at rxq.c (rte_calloc)
rx_hash_rxq_zero ==
  [qp |-> NULL, type |-> NULL, ind_table |-> NULL,
   mac_flow |-> [i \in MacIdx |-> [v \in VlanIdx |-> NULL]],
   promisc_flow |-> NULL, allmulti_flow |-> NULL]

\* third loop of priv_create_hash_rxqs: one QP per hash type per table
RECURSIVE hash_rxqs_create_qps(_, _, _, _, _, _, _)
hash_rxqs_create_qps(c, hash_rxqs, ind_tables, init, i, j, k) ==
  IF i = Len(hash_rxqs.at) \/ j = Len(ind_tables.at)
  THEN [c |-> [c EXCEPT !.priv.ind_tables = ind_tables,
                        !.priv.ind_tables_n = Len(ind_tables.at),
                        !.priv.hash_rxqs = hash_rxqs,
                        !.priv.hash_rxqs_n = Len(hash_rxqs.at)],
        ret |-> 0]
  ELSE IF create_fails(c)
       THEN hash_rxqs_error(obj_refused(c), hash_rxqs, ind_tables, create_errno(c))
       ELSE LET qp == obj_new(c, "qp")
                filled == [hash_rxqs EXCEPT
                             !.at[i + 1] = [rx_hash_rxq_zero EXCEPT
                                              !.qp = qp,
                                              !.type = init[j + 1].hash_types[k + 1],
                                              !.ind_table = ind_tables.at[j + 1].h]]
            IN IF k + 1 < Len(init[j + 1].hash_types)
               THEN hash_rxqs_create_qps(obj_create(c, qp), filled, ind_tables, init,
                                         i + 1, j, k + 1)
               ELSE hash_rxqs_create_qps(obj_create(c, qp), filled, ind_tables, init,
                                         i + 1, j + 1, 0)

\* allocation of the hash RX queues container
hash_rxqs_alloc(c, ind_tables, init, hash_rxqs_n) ==
  IF create_fails(c)
  THEN hash_rxqs_error(obj_refused(c), NULL, ind_tables, ENOMEM)
  ELSE LET mem == obj_new(c, "hash_rxqs")
       IN hash_rxqs_create_qps(obj_create(c, mem),
                               [mem |-> mem, at |-> [x \in 1 .. hash_rxqs_n |-> rx_hash_rxq_zero]],
                               ind_tables, init, 0, 0, 0)

\* second loop of priv_create_hash_rxqs: the indirection tables
RECURSIVE hash_rxqs_create_tables(_, _, _, _, _, _, _)
hash_rxqs_create_tables(c, ind_tables, init, wqs, wqs_n, hash_rxqs_n, i) ==
  IF i = Len(ind_tables.at)
  THEN hash_rxqs_alloc(c, ind_tables, init, hash_rxqs_n)
  ELSE LET max_size == init[i + 1].max_size
           ind_tbl_size == IF max_size = NoLimit \/ wqs_n < max_size
                           THEN wqs_n ELSE max_size
           log_ind_tbl_size == log2above(ind_tbl_size)
       IN IF create_fails(c)
          THEN hash_rxqs_error(obj_refused(c), NULL, ind_tables, create_errno(c))
          ELSE LET h == obj_new(c, "ind_table")
               IN hash_rxqs_create_tables(
                    obj_create(c, h),
                    [ind_tables EXCEPT
                       !.at[i + 1] = [h |-> h,
                                      log_ind_tbl_size |-> log_ind_tbl_size,
                                      ind_tbl |-> SubSeq(wqs, 1, Shl1(log_ind_tbl_size))]],
                    init, wqs, wqs_n, hash_rxqs_n, i + 1)

priv_create_hash_rxqs(c0) ==
  LET p == c0.priv
      wqs_n == hash_rxqs_wqs_n(p)
      init == IF p.rxqs_n = 1 THEN ind_table_init_no_rss ELSE ind_table_init_rss
      c == [c0 EXCEPT !.ok = @ /\ p.ind_tables = NULL /\ p.ind_tables_n = 0
                              /\ p.hash_rxqs = NULL /\ p.hash_rxqs_n = 0]
  IN IF p.rxqs_n = 0
     THEN [c |-> c, ret |-> EINVAL]
     ELSE IF wqs_n < p.rxqs_n \/ wqs_n > p.ind_table_max_size
          THEN hash_rxqs_error(c, NULL, NULL, ERANGE)
          ELSE LET f == hash_rxqs_fill_wqs(c, <<>>, wqs_n, 0, 0)
                   hash_rxqs_n == hash_rxqs_count(init, 1)
               IN IF create_fails(f.c)
                  THEN hash_rxqs_error(obj_refused(f.c), NULL, NULL, ENOMEM)
                  ELSE LET mem == obj_new(f.c, "ind_tables")
                       IN hash_rxqs_create_tables(
                            obj_create(f.c, mem),
                            [mem |-> mem, at |-> [x \in 1 .. Len(init) |-> NULL]],
                            init, f.wqs, wqs_n, hash_rxqs_n, 0)

RECURSIVE hash_rxqs_destroy_qps(_, _)
hash_rxqs_destroy_qps(c, i) ==
  IF i = c.priv.hash_rxqs_n
  THEN c
  ELSE LET hash_rxq == c.priv.hash_rxqs.at[i + 1]
           c1 == [c EXCEPT !.ok = @ /\ hash_rxq.qp # NULL
                                    /\ hash_rxq.allmulti_flow = NULL
                                    /\ hash_rxq.promisc_flow = NULL
                                    /\ \A j \in MacIdx, k \in VlanIdx :
                                         hash_rxq.mac_flow[j][k] = NULL]
       IN hash_rxqs_destroy_qps(obj_destroy(c1, hash_rxq.qp), i + 1)

RECURSIVE hash_rxqs_destroy_tables(_, _)
hash_rxqs_destroy_tables(c, i) ==
  IF i = c.priv.ind_tables_n
  THEN c
  ELSE LET ind_table == c.priv.ind_tables.at[i + 1]
           c1 == [c EXCEPT !.ok = @ /\ ind_table # NULL]
       IN hash_rxqs_destroy_tables(obj_destroy(c1, ind_table.h), i + 1)

priv_destroy_hash_rxqs(c) ==
  IF c.priv.hash_rxqs_n = 0
  THEN [c EXCEPT !.ok = @ /\ c.priv.hash_rxqs = NULL /\ c.priv.ind_tables = NULL]
  ELSE LET c1 == hash_rxqs_destroy_qps(c, 0)
           c2 == [obj_destroy(c1, c1.priv.hash_rxqs.mem) EXCEPT
                    !.priv.hash_rxqs_n = 0, !.priv.hash_rxqs = NULL]
           c3 == hash_rxqs_destroy_tables(c2, 0)
       IN [obj_destroy(c3, c3.priv.ind_tables.mem) EXCEPT
             !.priv.ind_tables_n = 0, !.priv.ind_tables = NULL]

\* ------------------------------------------------------------ RX queues
\* the pointer to the device that struct rxq holds
PrivPtr == <<"priv", 0>>

\* a zeroed struct rxq (rte_calloc_socket, memset in rxq_cleanup)
rxq_zero ==
  [mp |-> NULL, mr |-> NULL, cq |-> NULL, wq |-> NULL, if_wq |-> NULL,
   if_cq |-> NULL, rd |-> NULL, port_id |-> 0, elts_n |-> 0, elts_head |-> 0,
   elts |-> NULL, sp |-> FALSE, csum |-> FALSE, csum_l2tun |-> FALSE,
   mb_len |-> 0, socket |-> 0, stats_idx |-> 0, priv |-> NULL]

\* the buffers an element of a ring refers to; the union rxq->elts holds an
\* array of struct rxq_elt_sp (layout "sp") or of struct rxq_elt ("no_sp")
elt_bufs(elts, i) ==
  IF elts.layout = "sp"
  THEN {elts.at[i].bufs[j] : j \in 1 .. MLX5_PMD_SGE_WR_N} \ {NULL}
  ELSE {elts.at[i].buf} \ {NULL}

\* rte_pktmbuf_free_seg() on every buffer of the elts_n elements of the ring,
\* then rte_free(elts); an element beyond the array is an invalid read
RECURSIVE free_elts_bufs(_, _, _, _, _)
free_elts_bufs(c, elts, elts_n, i, j) ==
  IF i > elts_n
  THEN obj_destroy(c, elts.mem)
  ELSE IF i > Len(elts.at)
       THEN obj_destroy([c EXCEPT !.ok = FALSE], elts.mem)
       ELSE IF elts.layout = "sp"
            THEN IF j > MLX5_PMD_SGE_WR_N
                 THEN free_elts_bufs(c, elts, elts_n, i + 1, 1)
                 ELSE free_elts_bufs(
                        IF elts.at[i].bufs[j] # NULL
                        THEN obj_destroy(c, elts.at[i].bufs[j]) ELSE c,
                        elts, elts_n, i, j + 1)
            ELSE free_elts_bufs(
                   IF elts.at[i].buf # NULL THEN obj_destroy(c, elts.at[i].buf) ELSE c,
                   elts, elts_n, i + 1, 1)

\* mutant of pool_inc: the pointer into the pool does not advance
pool_inc_stuck(pool) == pool

\* struct rte_mbuf **pool: NULL, or [at |-> the buffers from the pointer on];
\* buf = *(pool++), and *pool beyond the array reads no buffer
pool_next(pool) == IF pool.at = <<>> THEN NULL ELSE Head(pool.at)
pool_inc(pool) == [at |-> IF pool.at = <<>> THEN <<>> ELSE Tail(pool.at)]

\* mutant of rxq_alloc_elts_error: nothing is freed
rxq_alloc_elts_error_leak(c, rxq, elts, pool, ret) ==
  [c |-> c, rxq |-> rxq, ret |-> ret]

\* error: label of rxq_alloc_elts_sp and of rxq_alloc_elts
rxq_alloc_elts_error(c, rxq, elts, pool, ret) ==
  [c |-> IF elts # NULL
         THEN free_elts_bufs([c EXCEPT !.ok = @ /\ pool = NULL], elts, Len(elts.at), 1, 1)
         ELSE c,
   rxq |-> rxq, ret |-> ret]

\* mutant of rxq_elt_sp_off: every segment keeps its headroom
rxq_elt_sp_off_kept(j, data_off) == data_off

\* DATA_OFF(buf) of segment j (from 1) of a scattered element, whose buffer
\* came with data_off: "if (j == 0) ... else SET_DATA_OFF(buf, 0)"
rxq_elt_sp_off(j, data_off) == IF j = 1 THEN data_off ELSE 0

\* the SGE of a buffer of length buf_len whose data starts at data_off:
\* addr is kept as the offset from buf->buf_addr
rxq_elt_sge(rxq, buf_len, data_off) ==
  [addr |-> data_off, length |-> buf_len - data_off, lkey |-> rxq.mr]

\* for each WR, for each SGE of rxq_alloc_elts_sp; rte_pktmbuf_alloc() and
\* rte_pktmbuf_reset() both leave DATA_OFF(buf) == RTE_PKTMBUF_HEADROOM
RECURSIVE rxq_alloc_elts_sp_loop(_, _, _, _, _, _)
rxq_alloc_elts_sp_loop(c, rxq, elts, pool, i, j) ==
  IF i > Len(elts.at)
  THEN [c |-> c,
        rxq |-> [rxq EXCEPT !.elts_n = Len(elts.at), !.elts_head = 0, !.elts = elts],
        ret |-> 0]
  ELSE IF j > MLX5_PMD_SGE_WR_N
       THEN rxq_alloc_elts_sp_loop(c, rxq, elts, pool, i + 1, 1)
       ELSE IF pool = NULL /\ create_fails(c)
            THEN rxq_alloc_elts_error(obj_refused(c), rxq, elts, pool, ENOMEM)
            ELSE LET buf == IF pool # NULL THEN pool_next(pool) ELSE obj_new(c, "mbuf")
                     c1 == IF pool # NULL
                           THEN [c EXCEPT !.ok = @ /\ buf # NULL]
                           ELSE obj_create(c, buf)
                     off == rxq_elt_sp_off(j, RTE_PKTMBUF_HEADROOM)
                     sge == rxq_elt_sge(rxq, MbufLen, off)
                 IN rxq_alloc_elts_sp_loop(
                      c1, rxq,
                      [elts EXCEPT !.at[i].bufs[j] = buf, !.at[i].sges[j] = sge,
                                   !.at[i].offs[j] = off],
                      IF pool # NULL THEN pool_inc(pool) ELSE NULL, i, j + 1)

rxq_alloc_elts_sp(c, rxq, elts_n, pool) ==
  IF create_fails(c)
  THEN rxq_alloc_elts_error(obj_refused(c), rxq, NULL, pool, ENOMEM)
  ELSE LET mem == obj_new(c, "elts")
           zero == [bufs |-> [j \in 1 .. MLX5_PMD_SGE_WR_N |-> NULL],
                    sges |-> [j \in 1 .. MLX5_PMD_SGE_WR_N |-> NULL],
                    offs |-> [j \in 1 .. MLX5_PMD_SGE_WR_N |-> NULL]]
       IN rxq_alloc_elts_sp_loop(
            obj_create(c, mem), rxq,
            [mem |-> mem, layout |-> "sp", at |-> [i \in 1 .. elts_n |-> zero]],
            pool, 1, 1)

RECURSIVE rxq_alloc_elts_loop(_, _, _, _, _)
rxq_alloc_elts_loop(c, rxq, elts, pool, i) ==
  IF i > Len(elts.at)
  THEN [c |-> c,
        rxq |-> [rxq EXCEPT !.elts_n = Len(elts.at), !.elts_head = 0, !.elts = elts],
        ret |-> 0]
  ELSE IF pool = NULL /\ create_fails(c)
       THEN rxq_alloc_elts_error(obj_refused(c), rxq, elts, pool, ENOMEM)
       ELSE LET buf == IF pool # NULL THEN pool_next(pool) ELSE obj_new(c, "mbuf")
                c1 == IF pool # NULL
                      THEN [c EXCEPT !.ok = @ /\ buf # NULL]
                      ELSE obj_create(c, buf)
            IN rxq_alloc_elts_loop(
                 c1, rxq,
                 [elts EXCEPT !.at[i] = [buf |-> buf,
                                         sge |-> rxq_elt_sge(rxq, MbufLen,
                                                             RTE_PKTMBUF_HEADROOM),
                                         off |-> RTE_PKTMBUF_HEADROOM]],
                 IF pool # NULL THEN pool_inc(pool) ELSE NULL, i + 1)

rxq_alloc_elts(c, rxq, elts_n, pool) ==
  IF create_fails(c)
  THEN rxq_alloc_elts_error(obj_refused(c), rxq, NULL, pool, ENOMEM)
  ELSE LET mem == obj_new(c, "elts")
       IN rxq_alloc_elts_loop(
            obj_create(c, mem), rxq,
            [mem |-> mem, layout |-> "no_sp",
             at |-> [i \in 1 .. elts_n |-> [buf |-> NULL, sge |-> NULL, off |-> NULL]]],
            pool, 1)

\* mutant of rxq_free_elts_as: the ring is freed, rxq->elts and rxq->elts_n
\* still name it
rxq_free_elts_as_dangling(c, rxq, layout) ==
  IF rxq.elts = NULL
  THEN [c |-> c, rxq |-> rxq]
  ELSE [c |-> free_elts_bufs([c EXCEPT !.ok = @ /\ rxq.elts.layout = layout],
                             rxq.elts, rxq.elts_n, 1, 1),
        rxq |-> rxq]

\* rxq_free_elts_sp / rxq_free_elts; reading the union through the member
\* that was not written is flagged in c.ok
rxq_free_elts_as(c, rxq, layout) ==
  LET elts == rxq.elts
      rxq1 == [rxq EXCEPT !.elts_n = 0, !.elts = NULL]
  IN IF elts = NULL
     THEN [c |-> c, rxq |-> rxq1]
     ELSE [c |-> free_elts_bufs([c EXCEPT !.ok = @ /\ elts.layout = layout],
                                elts, rxq.elts_n, 1, 1),
           rxq |-> rxq1]

rxq_free_elts_sp(c, rxq) == rxq_free_elts_as(c, rxq, "sp")
rxq_free_elts(c, rxq) == rxq_free_elts_as(c, rxq, "no_sp")

\* if (h != NULL) { assert(owner exists); claim_zero(release(h)); }
rxq_release(c, h, owner_ok) ==
  IF h # NULL THEN obj_destroy([c EXCEPT !.ok = @ /\ owner_ok], h) ELSE c

\* mutant of rxq_cleanup: the ring is always freed as a single-buffer ring
rxq_cleanup_no_sp(c, rxq) ==
  [c |-> rxq_release(
           rxq_release(
             rxq_release(
               rxq_release(
                 rxq_release(
                   rxq_release(
                     rxq_free_elts(c, rxq).c,
                     rxq.if_wq, rxq.priv # NULL /\ rxq.wq # NULL),
                   rxq.if_cq, rxq.priv # NULL /\ rxq.cq # NULL),
                 rxq.wq, TRUE),
               rxq.cq, TRUE),
             rxq.rd, rxq.priv # NULL),
           rxq.mr, TRUE),
   rxq |-> rxq_zero]

rxq_cleanup(c, rxq) ==
  [c |-> rxq_release(
           rxq_release(
             rxq_release(
               rxq_release(
                 rxq_release(
                   rxq_release(
                     (IF rxq.sp THEN rxq_free_elts_sp(c, rxq) ELSE rxq_free_elts(c, rxq)).c,
                     rxq.if_wq, rxq.priv # NULL /\ rxq.wq # NULL),
                   rxq.if_cq, rxq.priv # NULL /\ rxq.cq # NULL),
                 rxq.wq, TRUE),
               rxq.cq, TRUE),
             rxq.rd, rxq.priv # NULL),
           rxq.mr, TRUE),
   rxq |-> rxq_zero]

\* mutant of rxq_setup_error: what the template holds is not released
rxq_setup_error_leak(c, rxq, tmpl, ret) ==
  [c |-> [c EXCEPT !.ok = @ /\ ret > 0], rxq |-> rxq, ret |-> ret]

\* error: label of rxq_setup
rxq_setup_error(c, rxq, tmpl, ret) ==
  [c |-> [rxq_cleanup(c, tmpl).c EXCEPT !.ok = @ /\ ret > 0], rxq |-> rxq, ret |-> ret]

\* "Post SGEs" loop of rxq_setup: one recv_sg_list / recv_burst per element,
\* then the old contents of *rxq are cleaned up and replaced by tmpl
RECURSIVE rxq_setup_post(_, _, _, _)
rxq_setup_post(c, rxq, tmpl, i) ==
  IF i > tmpl.elts_n
  THEN [c |-> rxq_cleanup(c, rxq).c, rxq |-> tmpl, ret |-> 0]
  ELSE IF create_fails(c)
       THEN rxq_setup_error(obj_refused(c), rxq, tmpl, EIO)
       ELSE rxq_setup_post(
              [c EXCEPT !.n = @ + 1, !.log = Append(@, <<"post", tmpl.wq, i>>)],
              rxq, tmpl, i + 1)

\* mutant of rxq_setup_rdy: the descriptors are posted to a work queue that
\* was never moved to the ready state
rxq_setup_rdy_skipped(c, rxq, tmpl) ==
  IF create_fails(c)
  THEN rxq_setup_error(obj_refused(c), rxq, tmpl, create_errno(c))
  ELSE rxq_setup_post([c EXCEPT !.n = @ + 1], rxq, tmpl, 1)

\* ibv_exp_modify_wq(tmpl.wq, IBV_EXP_WQS_RDY)
rxq_setup_rdy(c, rxq, tmpl) ==
  IF create_fails(c)
  THEN rxq_setup_error(obj_refused(c), rxq, tmpl, create_errno(c))
  ELSE rxq_setup_post(
         [c EXCEPT !.n = @ + 1, !.log = Append(@, <<"modify_wq", tmpl.wq, "RDY">>)],
         rxq, tmpl, 1)

\* tmpl.if_wq = ibv_exp_query_intf(): on failure ret still holds the 0 that
\* rxq_alloc_elts*() returned
rxq_setup_if_wq(c, rxq, tmpl, ret) ==
  IF create_fails(c)
  THEN rxq_setup_error(obj_refused(c), rxq, tmpl, ret)
  ELSE rxq_setup_rdy(obj_create_attr(c, obj_new(c, "intf"), tmpl.wq), rxq,
                     [tmpl EXCEPT !.if_wq = obj_new(c, "intf")])

\* tmpl.if_cq = ibv_exp_query_intf(): likewise
rxq_setup_if_cq(c, rxq, tmpl, ret) ==
  IF create_fails(c)
  THEN rxq_setup_error(obj_refused(c), rxq, tmpl, ret)
  ELSE rxq_setup_if_wq(obj_create_attr(c, obj_new(c, "intf"), tmpl.cq), rxq,
                       [tmpl EXCEPT !.if_cq = obj_new(c, "intf")], ret)

\* a is the result of rxq_alloc_elts_sp() / rxq_alloc_elts() on tmpl
rxq_setup_elts(a, dev, rxq) ==
  IF a.ret # 0
  THEN rxq_setup_error(a.c, rxq, a.rxq, a.ret)
  ELSE rxq_setup_if_cq(a.c, rxq, [a.rxq EXCEPT !.port_id = dev.port_id], a.ret)

\* tmpl.wq = ibv_exp_create_wq()
rxq_setup_wq(c, dev, rxq, tmpl, desc) ==
  IF create_fails(c)
  THEN rxq_setup_error(obj_refused(c), rxq, tmpl, create_errno(c))
  ELSE rxq_setup_elts(
         IF tmpl.sp
         THEN rxq_alloc_elts_sp(
                obj_create_attr(
                  c, obj_new(c, "wq"),
                  [max_recv_wr |-> IF dev.device_attr.max_qp_wr < desc
                                   THEN dev.device_attr.max_qp_wr ELSE desc,
                   max_recv_sge |-> IF dev.device_attr.max_sge < MLX5_PMD_SGE_WR_N
                                    THEN dev.device_attr.max_sge ELSE MLX5_PMD_SGE_WR_N,
                   cq |-> tmpl.cq]),
                [tmpl EXCEPT !.wq = obj_new(c, "wq")], desc, NULL)
         ELSE rxq_alloc_elts(
                obj_create_attr(
                  c, obj_new(c, "wq"),
                  [max_recv_wr |-> IF dev.device_attr.max_qp_wr < desc
                                   THEN dev.device_attr.max_qp_wr ELSE desc,
                   max_recv_sge |-> IF dev.device_attr.max_sge < MLX5_PMD_SGE_WR_N
                                    THEN dev.device_attr.max_sge ELSE MLX5_PMD_SGE_WR_N,
                   cq |-> tmpl.cq]),
                [tmpl EXCEPT !.wq = obj_new(c, "wq")], desc, NULL),
         dev, rxq)

\* tmpl.cq = ibv_exp_create_cq(priv->ctx, desc, ...)
rxq_setup_cq(c, dev, rxq, tmpl, desc) ==
  IF create_fails(c)
  THEN rxq_setup_error(obj_refused(c), rxq, tmpl, ENOMEM)
  ELSE rxq_setup_wq(obj_create_attr(c, obj_new(c, "cq"), [cqe |-> desc]), dev, rxq,
                    [tmpl EXCEPT !.cq = obj_new(c, "cq")], desc)

\* tmpl.rd = ibv_exp_create_res_domain()
rxq_setup_rd(c, dev, rxq, tmpl, desc) ==
  IF create_fails(c)
  THEN rxq_setup_error(obj_refused(c), rxq, tmpl, ENOMEM)
  ELSE rxq_setup_cq(obj_create(c, obj_new(c, "rd")), dev, rxq,
                    [tmpl EXCEPT !.rd = obj_new(c, "rd")], desc)

\* tmpl.mr = ibv_reg_mr()
rxq_setup_mr(c, dev, rxq, tmpl, desc) ==
  IF create_fails(c)
  THEN rxq_setup_error(obj_refused(c), rxq, tmpl, EINVAL)
  ELSE rxq_setup_rd(obj_create(c, obj_new(c, "mr")), dev, rxq,
                    [tmpl EXCEPT !.mr = obj_new(c, "mr")], desc)

\* the template after the probe of the mempool: buffer length, checksum
\* offloads and scattered mode
rxq_setup_tmpl(dev, socket, mp, mb_len) ==
  [rxq_zero EXCEPT
     !.priv = PrivPtr, !.mp = mp, !.socket = socket, !.mb_len = mb_len,
     !.csum = IF dev.hw_csum THEN dev.dev_conf.hw_ip_checksum ELSE FALSE,
     !.csum_l2tun = IF dev.hw_csum_l2tun THEN dev.dev_conf.hw_ip_checksum ELSE FALSE,
     !.sp = /\ dev.dev_conf.jumbo_frame
            /\ dev.dev_conf.max_rx_pkt_len > mb_len - RTE_PKTMBUF_HEADROOM]

\* mutant of rxq_setup: only a descriptor count of zero is refused
rxq_setup_zero_only(c, dev, rxq, desc, socket, mp) ==
  IF desc = 0
  THEN [c |-> c, rxq |-> rxq, ret |-> EINVAL]
  ELSE IF create_fails(c)
       THEN [c |-> obj_refused(c), rxq |-> rxq, ret |-> ENOMEM]
       ELSE rxq_setup_mr(
              obj_destroy(obj_create(c, obj_new(c, "mbuf")), obj_new(c, "mbuf")),
              dev, rxq, rxq_setup_tmpl(dev, socket, mp, MbufLen),
              IF rxq_setup_tmpl(dev, socket, mp, MbufLen).sp
              THEN desc \div MLX5_PMD_SGE_WR_N ELSE desc)

\* dev is the part of priv / rte_eth_dev that rxq_setup reads
rxq_setup(c, dev, rxq, desc, socket, mp) ==
  IF desc = 0 \/ desc % MLX5_PMD_SGE_WR_N # 0
  THEN [c |-> c, rxq |-> rxq, ret |-> EINVAL]
  ELSE IF create_fails(c)
       THEN [c |-> obj_refused(c), rxq |-> rxq, ret |-> ENOMEM]
       ELSE rxq_setup_mr(
              obj_destroy(obj_create(c, obj_new(c, "mbuf")), obj_new(c, "mbuf")),
              dev, rxq, rxq_setup_tmpl(dev, socket, mp, MbufLen),
              IF rxq_setup_tmpl(dev, socket, mp, MbufLen).sp
              THEN desc \div MLX5_PMD_SGE_WR_N ELSE desc)

\* the end of mlx5_rx_queue_setup: r is the result of rxq_setup() on the
\* struct rxq at mem
rx_queue_setup_done(r, mem, idx) ==
  callback_end(
    IF r.ret # 0
    THEN [c |-> obj_destroy(r.c, mem), ret |-> 0 - r.ret]
    ELSE [c |-> [r.c EXCEPT
                   !.priv.rxqs[idx] = [mem |-> mem, s |-> [r.rxq EXCEPT !.stats_idx = idx]],
                   !.priv.rx_pkt_burst = IF r.rxq.sp THEN "mlx5_rx_burst_sp"
                                         ELSE "mlx5_rx_burst"],
          ret |-> 0 - r.ret])

\* the pointer (*priv->rxqs)[idx] is NULL or [mem |-> the rte_calloc()ed
\* struct rxq, s |-> its contents].  (The pointer is read before the range
\* check; for idx >= rxqs_n the value read is not used.)
mlx5_rx_queue_setup(c, idx, desc, socket, mp) ==
  IF idx >= c.priv.rxqs_n
  THEN callback_end([c |-> priv_lock(c), ret |-> 0 - EOVERFLOW])
  ELSE IF c.priv.rxqs[idx] # NULL
       THEN IF c.priv.started
            THEN callback_end([c |-> priv_lock(c), ret |-> 0 - EEXIST])
            ELSE rx_queue_setup_done(
                   rxq_setup(rxq_cleanup([priv_lock(c) EXCEPT !.priv.rxqs[idx] = NULL],
                                         c.priv.rxqs[idx].s).c,
                             c.priv, rxq_zero, desc, socket, mp),
                   c.priv.rxqs[idx].mem, idx)
       ELSE IF create_fails(c)
            THEN callback_end([c |-> obj_refused(priv_lock(c)), ret |-> 0 - ENOMEM])
            ELSE rx_queue_setup_done(
                   rxq_setup(obj_create(priv_lock(c), obj_new(c, "rxq")), c.priv, rxq_zero,
                             desc, socket, mp),
                   obj_new(c, "rxq"), idx)

\* ------------------------------------------------------------ rxq_rehash
\* error: label of rxq_rehash: *rxq = tmpl
rxq_rehash_error(c, rxq, tmpl, err) ==
  [c |-> [c EXCEPT !.ok = @ /\ err >= 0], rxq |-> tmpl, ret |-> err]

\* "Post SGEs": for (i = 0; (i != elemof(*elts)); ++i) with n == elemof(*elts)
RECURSIVE rxq_rehash_post(_, _, _, _, _)
rxq_rehash_post(c, rxq, tmpl, n, i) ==
  IF i > n
  THEN rxq_rehash_error(c, rxq, tmpl, 0)
  ELSE IF create_fails(c)
       THEN rxq_rehash_error(obj_refused(c), rxq, tmpl, EIO)
       ELSE rxq_rehash_post(
              [c EXCEPT !.n = @ + 1,
                        !.ok = @ /\ i <= tmpl.elts_n,
                        !.log = Append(@, <<"post", tmpl.wq, i>>)],
              rxq, tmpl, n, i + 1)

\* the array type of the posting loops is declared with rxq->elts_n elements,
\* which is read after "rxq->elts_n = 0".  An array type of no element is
\* undefined: the oracle decides between the size evaluating to 0, so that
\* elemof(*elts) is 0, and the evaluation trapping.
rxq_rehash_elemof(c, rxq, tmpl) ==
  IF rxq.elts_n # 0
  THEN rxq_rehash_post(c, rxq, tmpl, rxq.elts_n, 1)
  ELSE IF create_fails(c)
       THEN [c |-> [obj_refused(c) EXCEPT !.ok = FALSE], rxq |-> rxq, ret |-> 0]
       ELSE rxq_rehash_post(obj_refused(c), rxq, tmpl, 0, 1)

\* "Change queue state to ready"
rxq_rehash_rdy(c, rxq, tmpl) ==
  IF create_fails(c)
  THEN rxq_rehash_error([obj_refused(c) EXCEPT !.ok = @ /\ create_errno(c) > 0],
                        rxq, tmpl, create_errno(c))
  ELSE rxq_rehash_elemof(
         [c EXCEPT !.n = @ + 1,
                   !.ok = @ /\ tmpl.if_wq # NULL,
                   !.log = Append(@, <<"modify_wq", tmpl.wq, "RDY">>)],
         rxq, tmpl)

\* a is the result of rxq_alloc_elts_sp() / rxq_alloc_elts() on the template;
\* on success the pool and the original array are freed
rxq_rehash_elts(a, rxq, pool, desc_n) ==
  IF a.ret # 0
  THEN [c |-> [obj_destroy(a.c, pool) EXCEPT !.ok = @ /\ a.ret > 0],
        rxq |-> rxq, ret |-> a.ret]
  ELSE rxq_rehash_rdy(
         rxq_release(
           obj_destroy([a.c EXCEPT !.ok = @ /\ a.rxq.elts_n = desc_n
                                        /\ a.rxq.elts # NULL],
                       pool),
           IF rxq.elts = NULL THEN NULL ELSE rxq.elts.mem, TRUE),
         [rxq EXCEPT !.elts_n = 0, !.elts = NULL], a.rxq)

\* "Snatch mbufs from original queue": the mbuf_n buffers of the ring, in
\* order, read through the member of the union that rxq->sp names
rxq_rehash_snatch(rxq, mbuf_n) ==
  IF rxq.elts = NULL \/ rxq.elts.layout # (IF rxq.sp THEN "sp" ELSE "no_sp")
  THEN [at |-> <<>>]
  ELSE [at |-> [k \in 1 .. mbuf_n |->
                  IF rxq.sp
                  THEN rxq.elts.at[((k - 1) \div MLX5_PMD_SGE_WR_N) + 1]
                         .bufs[((k - 1) % MLX5_PMD_SGE_WR_N) + 1]
                  ELSE rxq.elts.at[k].buf]]

\* "Allocate pool"; rte_malloc() of no byte returns NULL
rxq_rehash_pool(c, rxq, tmpl, desc_n, mbuf_n) ==
  IF mbuf_n = 0
  THEN [c |-> c, rxq |-> rxq, ret |-> ENOBUFS]
  ELSE IF create_fails(c)
       THEN [c |-> obj_refused(c), rxq |-> rxq, ret |-> ENOBUFS]
       ELSE rxq_rehash_elts(
              IF tmpl.sp
              THEN rxq_alloc_elts_sp(
                     [obj_create(c, obj_new(c, "pool")) EXCEPT
                        !.ok = @ /\ Len(rxq_rehash_snatch(rxq, mbuf_n).at) = mbuf_n
                                 /\ (rxq.sp =>
                                       \A k \in 1 .. mbuf_n :
                                         rxq_rehash_snatch(rxq, mbuf_n).at[k] # NULL)],
                     [tmpl EXCEPT !.elts_n = 0, !.elts = NULL],
                     desc_n, rxq_rehash_snatch(rxq, mbuf_n))
              ELSE rxq_alloc_elts(
                     [obj_create(c, obj_new(c, "pool")) EXCEPT
                        !.ok = @ /\ Len(rxq_rehash_snatch(rxq, mbuf_n).at) = mbuf_n
                                 /\ (rxq.sp =>
                                       \A k \in 1 .. mbuf_n :
                                         rxq_rehash_snatch(rxq, mbuf_n).at[k] # NULL)],
                     [tmpl EXCEPT !.elts_n = 0, !.elts = NULL],
                     desc_n, rxq_rehash_snatch(rxq, mbuf_n)),
              rxq, obj_new(c, "pool"), desc_n)

\* ibv_resize_cq(tmpl.cq, desc_n)
rxq_rehash_cq(c, rxq, tmpl, desc_n, mbuf_n) ==
  IF create_fails(c)
  THEN [c |-> [obj_refused(c) EXCEPT !.ok = @ /\ create_errno(c) > 0],
        rxq |-> rxq, ret |-> create_errno(c)]
  ELSE rxq_rehash_pool(
         [c EXCEPT !.n = @ + 1,
                   !.ok = @ /\ tmpl.cq \in c.live,
                   !.log = Append(@, <<"resize_cq", tmpl.cq, desc_n>>)],
         rxq, tmpl, desc_n, mbuf_n)

\* "Reinitialize WQ": ibv_exp_modify_wq(tmpl.wq, IBV_EXP_WQS_RESET)
rxq_rehash_reset(c, rxq, tmpl, desc_n, mbuf_n) ==
  IF create_fails(c)
  THEN [c |-> [obj_refused(c) EXCEPT !.ok = @ /\ create_errno(c) > 0
                                          /\ tmpl.wq \in c.live],
        rxq |-> rxq, ret |-> create_errno(c)]
  ELSE rxq_rehash_cq(
         [c EXCEPT !.n = @ + 1,
                   !.ok = @ /\ tmpl.wq \in c.live,
                   !.log = Append(@, <<"modify_wq", tmpl.wq, "RESET">>)],
         rxq, tmpl, desc_n, mbuf_n)

\* the checksum offloads are written to the template and to the queue
rxq_rehash_csum(dev, rxq) ==
  [rxq EXCEPT
     !.csum = IF dev.hw_csum THEN dev.dev_conf.hw_ip_checksum ELSE @,
     !.csum_l2tun = IF dev.hw_csum_l2tun THEN dev.dev_conf.hw_ip_checksum ELSE @]

\* scattered packets support is enabled when the configured frame size does
\* not fit in one buffer
rxq_rehash_sp(dev, rxq) ==
  /\ dev.dev_conf.jumbo_frame
  /\ dev.dev_conf.max_rx_pkt_len > rxq.mb_len - RTE_PKTMBUF_HEADROOM

\* priv = rxq->priv is read for priv->hw_csum: on a queue that holds no
\* pointer to the device this is a NULL dereference
rxq_rehash(c, dev, rxq) ==
  IF rxq_rehash_sp(dev, rxq) = rxq.sp
  THEN [c |-> [c EXCEPT !.ok = @ /\ rxq.priv # NULL],
        rxq |-> rxq_rehash_csum(dev, rxq), ret |-> 0]
  ELSE rxq_rehash_reset(
         [c EXCEPT !.ok = @ /\ rxq.priv # NULL], rxq_rehash_csum(dev, rxq),
         [rxq_rehash_csum(dev, rxq) EXCEPT !.sp = rxq_rehash_sp(dev, rxq)],
         IF rxq_rehash_sp(dev, rxq)
         THEN (rxq.elts_n * (IF rxq.sp THEN MLX5_PMD_SGE_WR_N ELSE 1))
                \div MLX5_PMD_SGE_WR_N
         ELSE rxq.elts_n * (IF rxq.sp THEN MLX5_PMD_SGE_WR_N ELSE 1),
         rxq.elts_n * (IF rxq.sp THEN MLX5_PMD_SGE_WR_N ELSE 1))

\* -------------------------------------------------- mlx5_rx_queue_release
\* dpdk_rxq is NULL or the pointer [mem, s] the application holds; the slot
\* of priv->rxqs that holds the same pointer is cleared.  The device is
\* reached through rxq->priv: on a queue that holds no pointer to the device
\* priv_lock(priv) is a NULL dereference
rx_queue_release_slots(p, dpdk_rxq) ==
  [i \in DOMAIN p.rxqs |->
     IF p.rxqs[i] # NULL /\ p.rxqs[i].mem = dpdk_rxq.mem
        /\ \A j \in DOMAIN p.rxqs :
             (p.rxqs[j] # NULL /\ p.rxqs[j].mem = dpdk_rxq.mem) => j >= i
     THEN NULL ELSE p.rxqs[i]]

mlx5_rx_queue_release(c, dpdk_rxq) ==
  IF dpdk_rxq = NULL
  THEN c
  ELSE priv_unlock(
         obj_destroy(
           rxq_cleanup([priv_lock(c) EXCEPT
                          !.priv.rxqs = rx_queue_release_slots(c.priv, dpdk_rxq),
                          !.ok = @ /\ dpdk_rxq.s.priv # NULL],
                       dpdk_rxq.s).c,
           dpdk_rxq.mem))

\* ---------------------------------------------------------- the RX device
\* dev->data->dev_conf.rxmode of the configurations explored
DevConfs ==
  {[jumbo_frame |-> FALSE, max_rx_pkt_len |-> 1518, hw_ip_checksum |-> FALSE],
   [jumbo_frame |-> TRUE, max_rx_pkt_len |-> 9000, hw_ip_checksum |-> TRUE]}

\* priv->device_attr and the checksum capabilities of the devices explored:
\* one whose limits exceed every request, one whose max_qp_wr is below the
\* largest descriptor count requested (as 16384 is below a request of 32768)
HwCaps ==
  {[max_qp_wr |-> 16384, max_sge |-> 32, hw_csum |-> TRUE, hw_csum_l2tun |-> FALSE],
   [max_qp_wr |-> MLX5_PMD_SGE_WR_N \div 2, max_sge |-> 2, hw_csum |-> FALSE,
    hw_csum_l2tun |-> FALSE]}

IndTableSizes == {2, MaxIndTableSize}
Descs == {0, 2} \cup {k * MLX5_PMD_SGE_WR_N : k \in 1 .. MaxDescFactor}
Mempool == <<"mp", 0>>

\* struct priv after mlx5_dev_configure(): rxqs_n queues, none set up
rx_priv_init(rxqs_n, ind_table_max_size, caps, conf) ==
  [rxqs_n |-> rxqs_n,
   rxqs |-> [i \in 0 .. (rxqs_n - 1) |-> NULL],
   ind_table_max_size |-> ind_table_max_size,
   ind_tables |-> NULL,
   ind_tables_n |-> 0,
   hash_rxqs |-> NULL,
   hash_rxqs_n |-> 0,
   started |-> FALSE,
   device_attr |-> [max_qp_wr |-> caps.max_qp_wr, max_sge |-> caps.max_sge],
   hw_csum |-> caps.hw_csum,
   hw_csum_l2tun |-> caps.hw_csum_l2tun,
   dev_conf |-> conf,
   port_id |-> 0,
   rx_pkt_burst |-> "removed_rx_burst"]

\* the queues of the device that exist
RxqIdx(p) == {i \in DOMAIN p.rxqs : p.rxqs[i] # NULL}

\* the objects a ring / a queue / the device refers to
EltsObjs(elts) ==
  IF elts = NULL
  THEN {}
  ELSE {elts.mem} \cup UNION {elt_bufs(elts, i) : i \in 1 .. Len(elts.at)}

RxqObjs(rxq) ==
  IF rxq = NULL
  THEN {}
  ELSE ({rxq.mem, rxq.s.mr, rxq.s.rd, rxq.s.cq, rxq.s.wq, rxq.s.if_cq, rxq.s.if_wq}
        \ {NULL}) \cup EltsObjs(rxq.s.elts)

HashObjs(p) ==
  (IF p.ind_tables = NULL
   THEN {}
   ELSE {p.ind_tables.mem}
        \cup {p.ind_tables.at[i].h : i \in {j \in 1 .. Len(p.ind_tables.at) :
                                             p.ind_tables.at[j] # NULL}})
  \cup
  (IF p.hash_rxqs = NULL
   THEN {}
   ELSE {p.hash_rxqs.mem}
        \cup ({p.hash_rxqs.at[i].qp : i \in 1 .. Len(p.hash_rxqs.at)} \ {NULL}))

PrivObjs(p) == HashObjs(p) \cup UNION {RxqObjs(p.rxqs[i]) : i \in DOMAIN p.rxqs}

\* rxq_rehash() works on the struct rxq that (*priv->rxqs)[idx] points to
rxq_rehash_at(r, idx) ==
  [c |-> [r.c EXCEPT !.priv.rxqs[idx].s = r.rxq], ret |-> r.ret]

\* one entry point of rxq.c, by name, run on device state p under the oracle
rx_callback(p, op, idx, desc, F, E) ==
  LET c == rx_ctx(p, PrivObjs(p), F, E)
  IN CASE op = "rx_queue_setup" -> mlx5_rx_queue_setup(c, idx, desc, 0, Mempool)
       [] op = "create_hash_rxqs" -> priv_create_hash_rxqs(c)
       [] op = "destroy_hash_rxqs" -> [c |-> priv_destroy_hash_rxqs(c), ret |-> 0]
       [] op = "rxq_rehash" -> rxq_rehash_at(rxq_rehash(c, p, p.rxqs[idx].s), idx)
       [] op = "rx_queue_release" ->
            [c |-> mlx5_rx_queue_release(c, p.rxqs[idx]), ret |-> 0]

\* the outcomes under every oracle {} or {f}: each entry point gives up at
\* the first call that fails (r is the outcome when no call fails)
RxOutcomesFrom(r, p, op, idx, desc, E) ==
  {r} \cup {rx_callback(p, op, idx, desc, {f}, E) : f \in 1 .. r.c.n}

RxOutcomes(p, op, idx, desc, E) ==
  RxOutcomesFrom(rx_callback(p, op, idx, desc, {}, E), p, op, idx, desc, E)

\* mlx5_dev_start() on a device whose queues are all set up: the hash RX
\* queues exist and priv->started is set
RECURSIVE rx_setup_all(_, _, _)
rx_setup_all(p, i, desc) ==
  IF i = p.rxqs_n
  THEN p
  ELSE rx_setup_all(rx_callback(p, "rx_queue_setup", i, desc, {}, 0).c.priv, i + 1, desc)

rx_priv_started(p, desc) ==
  [rx_callback(rx_setup_all(p, 0, desc), "create_hash_rxqs", 0, 0, {}, 0).c.priv
     EXCEPT !.started = TRUE]

InitRx ==
  /\ \E rxqs_n \in 0 .. MaxRxqs, ind_table_max_size \in IndTableSizes,
        caps \in HwCaps, conf \in DevConfs, is_started \in BOOLEAN :
       priv \in IF is_started
                THEN {q \in {rx_priv_started(
                               rx_priv_init(rxqs_n, ind_table_max_size, caps, conf),
                               MLX5_PMD_SGE_WR_N)} : q.hash_rxqs_n # 0}
                ELSE {rx_priv_init(rxqs_n, ind_table_max_size, caps, conf)}
  /\ asserts_ok = TRUE
  /\ threads = NoThreads

RxCall(op, idx, desc) ==
  /\ asserts_ok
  /\ \E r \in RxOutcomes(priv, op, idx, desc, 0) :
       /\ priv' = r.c.priv
       /\ asserts_ok' = r.c.ok
       /\ UNCHANGED threads

RxQueueSetup ==
  \E idx \in 0 .. MaxRxqs, desc \in Descs : RxCall("rx_queue_setup", idx, desc)

\* priv_create_hash_rxqs() asserts that no hash RX queue exists
CreateHashRxqs ==
  /\ ~priv.started
  /\ priv.hash_rxqs_n = 0
  /\ RxCall("create_hash_rxqs", 0, 0)

DestroyHashRxqs ==
  /\ ~priv.started
  /\ RxCall("destroy_hash_rxqs", 0, 0)

NextRx ==
  \/ RxQueueSetup
  \/ CreateHashRxqs
  \/ DestroyHashRxqs

SpecRx == InitRx /\ [][NextRx]_vars

\* ------------------------------------------- queues that are reconfigured
\* a stopped device whose queues are set up, rehashed after the application
\* changed the RX mode, and released
InitRxq ==
  /\ \E rxqs_n \in 1 .. MaxRehashRxqs, caps \in HwCaps, conf \in DevConfs :
       priv = rx_priv_init(rxqs_n, MaxIndTableSize, caps, conf)
  /\ asserts_ok = TRUE
  /\ threads = NoThreads

\* the application changes dev->data->dev_conf.rxmode
SetRxMode ==
  /\ asserts_ok
  /\ \E conf \in DevConfs : priv' = [priv EXCEPT !.dev_conf = conf]
  /\ UNCHANGED <<asserts_ok, threads>>

\* rxq_rehash() is called on a queue that exists
RxqRehash ==
  \E idx \in 0 .. (priv.rxqs_n - 1) :
    /\ priv.rxqs[idx] # NULL
    /\ RxCall("rxq_rehash", idx, 0)

RxQueueRelease ==
  \E idx \in 0 .. (priv.rxqs_n - 1) : RxCall("rx_queue_release", idx, 0)

NextRxq ==
  \/ RxQueueSetup
  \/ SetRxMode
  \/ RxqRehash
  \/ RxQueueRelease

SpecRxq == InitRxq /\ [][NextRxq]_vars

\* ------------------------------------------------------------- properties
\* every outcome a callback can have on device state p: any refusal pattern
\* of the hardware, any value of errno
OutcomesOf(p, op, mac_addr, index) ==
  UNION {Outcomes(p, op, mac_addr, index, {}, E) : E \in ErrnoSet}

\* the per-MAC rules hash RX queue q of device state p holds for slot i
MacRules(p, q, i) == {v \in VlanIdx : p.hash_rxqs[q].mac_flow[i][v] # NULL}
HasMacRule(p, q) == \E i \in MacIdx : MacRules(p, q, i) # {}

\* C1: whatever add / remove / promiscuous / allmulticast calls were made and
\* whichever rule creations the hardware refused, a MAC slot whose device-level
\* configured flag is clear has no per-MAC rule on any hash RX queue.
C1_UnconfiguredSlotHasNoRule ==
  \A i \in MacIdx :
    ~priv.mac_configured[i] =>
      \A q \in HashIdx(priv) : MacRules(priv, q, i) = {}

\* a started device on which slot i lost its configuration (its address is
\* stored, its flag is clear) while another slot keeps its rules
C1_Witness ==
  /\ priv.started
  /\ \E i, j \in MacIdx :
       /\ ~priv.mac_configured[i] /\ priv.mac[i] # 0
       /\ priv.mac_configured[j]
       /\ \A q \in HashIdx(priv) : MacRules(priv, q, j) # {}

\* C2: add(i, a) returns EADDRINUSE whenever another configured slot j # i
\* holds a, and then the shadow table, the flags and every rule are unchanged.
C2_AddConflictRefused ==
  \A i \in MacIdx, a \in Addrs :
    (\E j \in MacIdx : j # i /\ priv.mac_configured[j] /\ priv.mac[j] = a) =>
      \A E \in ErrnoSet, F \in SUBSET (1 .. 2) :
        LET r == priv_mac_addr_add(ctx(priv, F, E), i, a)
        IN /\ r.ret = EADDRINUSE
           /\ r.c.priv = priv
           /\ r.c.log = <<>>
           /\ r.c.n = 0

\* slot 0 is configured with rules installed and slot 1 still holds another
\* address: add(1, mac[0]) is the conflicting call
C2_Witness ==
  /\ priv.started
  /\ priv.mac_configured[0] /\ priv.mac_configured[1]
  /\ \A q \in HashIdx(priv) : MacRules(priv, q, 0) # {} /\ MacRules(priv, q, 1) # {}
  /\ priv_mac_addr_add(ctx(priv, {}, 0), 1, priv.mac[0]).ret = EADDRINUSE

\* C10: no two configured MAC slots hold the same address.
C10_ConfiguredAddressesUnique ==
  \A i, j \in MacIdx :
    (i # j /\ priv.mac_configured[i] /\ priv.mac_configured[j]) =>
      priv.mac[i] # priv.mac[j]

\* both slots store the same address, one of them configured (a failed or
\* removed add left the other), on a device with rules installed
C10_Witness ==
  /\ priv.started
  /\ \E i, j \in MacIdx :
       /\ i # j
       /\ priv.mac[i] = priv.mac[j]
       /\ priv.mac_configured[i] /\ ~priv.mac_configured[j]
       /\ \A q \in HashIdx(priv) : MacRules(priv, q, i) # {}

\* C3: when add(i, a) on a started device fails on a rule creation, the rules
\* this call installed for slot i (on queues 0..k-1, and the VLAN rules partly
\* installed on the failing queue k) are destroyed, each exactly once, from
\* the failing queue down to queue 0; no queue keeps a rule for slot i, the
\* slot's configured flag is clear and the failed creation's error code (errno,
\* or EINVAL when errno is not set) is returned.
C3_FailedAddRolledBack ==
  priv.started =>
    \A i \in MacIdx, a \in Addrs, E \in ErrnoSet :
      \A r \in Outcomes(priv, "mac_addr_add", a, i, {}, E) :
        (r.ret \notin {0, NoCall, EADDRINUSE}) =>
          LET log == r.c.log
              \* the rules of the entry being replaced are destroyed first
              old == IF priv.mac_configured[i]
                     THEN {qv \in HashIdx(priv) \X VlanIdx : qv[2] \in MacRules(priv, qv[1], i)}
                     ELSE {}
              made == {x \in 1 .. Len(log) : log[x][1] = "create_mac"}
              k == SetMax(made \cup {Cardinality(old)})
              undone == (k + 1) .. Len(log)
          IN /\ \A x \in 1 .. Cardinality(old) :
                  log[x][1] = "destroy_mac" /\ <<log[x][2], log[x][4]>> \in old
             /\ \A q \in HashIdx(priv) :
                  /\ MacRules(r.c.priv, q, i) = {}
                  /\ ~r.c.priv.hash_rxqs[q].mac_configured[i]
             /\ ~r.c.priv.mac_configured[i]
             /\ r.ret = (IF E # 0 THEN E ELSE EINVAL)
             /\ \A y \in undone : log[y][1] = "destroy_mac" /\ log[y][3] = i
             /\ \A x \in made :
                  Cardinality({y \in undone : SubSeq(log[y], 2, 4) = SubSeq(log[x], 2, 4)}) = 1
             /\ Cardinality(undone) = Cardinality(made)
             /\ \A x, y \in undone : x < y => log[x][2] >= log[y][2]

\* a slot is configured, and replacing its address can fail on queue 1 after a
\* first VLAN rule was created there and after queue 0 was fully programmed
C3_Witness ==
  /\ priv.started
  /\ \E i \in MacIdx, a \in Addrs :
       /\ priv.mac_configured[i] /\ a # priv.mac[i]
       /\ \E r \in Outcomes(priv, "mac_addr_add", a, i, {}, ENOMEM) :
            /\ r.ret = ENOMEM
            /\ \E x, y \in 1 .. Len(r.c.log) :
                 /\ r.c.log[x] = <<"create_mac", 0, i, 1>>
                 /\ r.c.log[y] = <<"create_mac", 1, i, 0>>

\* C6: when enable_promiscuous or enable_allmulticast fails on hash RX queue k,
\* every broad rule this call created (queues 0..k-1) has been destroyed again
\* and the group-level flag of that mode is still clear.
C6_FailedEnableRolledBack ==
  \A m \in {"promisc", "allmulti"} :
    LET op == IF m = "promisc" THEN "promiscuous_enable" ELSE "allmulticast_enable"
        mk == IF m = "promisc" THEN "create_promisc" ELSE "create_allmulti"
        rm == IF m = "promisc" THEN "destroy_promisc" ELSE "destroy_allmulti"
    IN \A r \in Outcomes(priv, op, 0, 0, {}, 0) :
         (r.ret # 0) =>
           /\ ~(IF m = "promisc" THEN r.c.priv.promisc ELSE r.c.priv.allmulti)
           /\ \A x \in 1 .. Len(r.c.log) :
                (r.c.log[x][1] = mk) =>
                  /\ \E y \in (x + 1) .. Len(r.c.log) : r.c.log[y] = <<rm, r.c.log[x][2]>>
                  /\ (IF m = "promisc"
                      THEN r.c.priv.hash_rxqs[r.c.log[x][2]].promisc_flow
                      ELSE r.c.priv.hash_rxqs[r.c.log[x][2]].allmulti_flow) = NULL

\* a device with a configured MAC on which both enables can fail on queue 1
\* after having created the broad rule of queue 0
C6_Witness ==
  /\ \E i \in MacIdx : priv.mac_configured[i]
  /\ \E r \in Outcomes(priv, "promiscuous_enable", 0, 0, {}, ENOMEM) :
       r.ret = ENOMEM /\ \E x \in 1 .. Len(r.c.log) : r.c.log[x] = <<"create_promisc", 0>>
  /\ \E r \in Outcomes(priv, "allmulticast_enable", 0, 0, {}, 0) :
       r.ret = EINVAL /\ \E x \in 1 .. Len(r.c.log) : r.c.log[x] = <<"create_allmulti", 0>>

\* C4 (as claimed): after enable_promiscuous returns success on a device with
\* configured MAC slots, every hash RX queue holds no per-MAC rule and exactly
\* one promiscuous rule.
C4_PromiscuousReplacesMacRules ==
  (\E i \in MacIdx : priv.mac_configured[i]) =>
    \A r \in OutcomesOf(priv, "promiscuous_enable", 0, 0) :
      (r.ret = 0) =>
        \A q \in HashIdx(priv) :
          /\ ~HasMacRule(r.c.priv, q)
          /\ r.c.priv.hash_rxqs[q].promisc_flow # NULL

\* C5 (as claimed): on a started device with promiscuous mode off,
\* enable_promiscuous followed by disable_promiscuous leaves every hash RX
\* queue with exactly the per-MAC rules it held before the enable.
C5_PromiscuousRoundTrip ==
  (priv.started /\ ~priv.promisc) =>
    \A r1 \in OutcomesOf(priv, "promiscuous_enable", 0, 0) :
      (r1.ret = 0) =>
        \A r2 \in OutcomesOf(r1.c.priv, "promiscuous_disable", 0, 0) :
          \A q \in HashIdx(priv) :
            r2.c.priv.hash_rxqs[q].mac_flow = priv.hash_rxqs[q].mac_flow

\* C7 (as claimed): on a started device, after any configuration call that
\* returns without error and leaves at least one MAC slot configured, every
\* hash RX queue holds a per-MAC rule or a promiscuous rule.
C7_NoQueueWithoutRule ==
  (priv.started /\ \E i \in MacIdx : priv.mac_configured[i]) =>
    \A op \in {"mac_addr_add", "mac_addr_remove", "promiscuous_enable",
               "promiscuous_disable", "allmulticast_enable", "allmulticast_disable"} :
      \A a \in Addrs, i \in MacIdx :
        \A r \in OutcomesOf(priv, op, a, i) :
          (r.ret \in {0, NoCall} /\ \E j \in MacIdx : r.c.priv.mac_configured[j]) =>
            \A q \in HashIdx(priv) :
              HasMacRule(r.c.priv, q) \/ r.c.priv.hash_rxqs[q].promisc_flow # NULL

\* the shadow state of the filter table
Shadow(p) == <<p.mac, p.mac_configured>>

\* C8 (as claimed): for every index i and every address a not configured at
\* another index, add(i, a) followed by remove(i) leaves the slot addresses
\* and the configured flags as they were before the add.
C8_AddRemoveRestoresShadow ==
  \A i \in MacIdx, a \in Addrs :
    (~\E j \in MacIdx : j # i /\ priv.mac_configured[j] /\ priv.mac[j] = a) =>
      \A r1 \in OutcomesOf(priv, "mac_addr_add", a, i) :
        \A r2 \in OutcomesOf(r1.c.priv, "mac_addr_remove", 0, i) :
          Shadow(r2.c.priv) = Shadow(priv)

\* C8 (amended): when slot i is not configured, add(i, a) followed by
\* remove(i) leaves the configured flags, the addresses of the configured
\* slots and of every slot but i, and all rules of all queues as before the
\* add; the bytes stored in slot i are those of a when the add got as far as
\* storing them.
C8_AddRemoveOnFreeSlot ==
  \A i \in MacIdx, a \in Addrs :
    (/\ ~priv.mac_configured[i]
     /\ ~\E j \in MacIdx : j # i /\ priv.mac_configured[j] /\ priv.mac[j] = a) =>
      \A r1 \in Outcomes(priv, "mac_addr_add", a, i, {}, 0) :
        \A r2 \in Outcomes(r1.c.priv, "mac_addr_remove", 0, i, {}, 0) :
          /\ r2.c.priv.mac_configured = priv.mac_configured
          /\ \A j \in MacIdx : j # i => r2.c.priv.mac[j] = priv.mac[j]
          /\ r2.c.priv.mac[i] = (IF r1.ret = NoCall THEN priv.mac[i] ELSE a)
          /\ r2.c.priv.hash_rxqs = priv.hash_rxqs

\* a started device with a free slot whose add installs rules on every queue
\* next to those of a configured slot, and whose remove destroys them again
C8_Witness ==
  /\ priv.started
  /\ \E i, j \in MacIdx, a \in Addrs :
       /\ ~priv.mac_configured[i] /\ priv.mac_configured[j] /\ priv.mac[i] # a
       /\ \E r1 \in OutcomesOf(priv, "mac_addr_add", a, i) :
            /\ r1.ret = 0
            /\ \A q \in HashIdx(priv) : MacRules(r1.c.priv, q, i) # {}
            /\ \E r2 \in OutcomesOf(r1.c.priv, "mac_addr_remove", 0, i) :
                 /\ r2.c.priv.hash_rxqs = priv.hash_rxqs
                 /\ r2.c.priv.mac[i] = a

EnabledVlans(p) == {v \in VlanIdx : p.vlan_filter[v].enabled}

\* C11: after add(i, a) succeeds on a started device, each hash RX queue holds
\* for slot i exactly one rule per enabled VLAN filter entry (matching address
\* a and that entry's VLAN id), or exactly one VLAN-wildcard rule stored at
\* VLAN position 0 when no entry is enabled, and no rule at any other position;
\* the call created each of these rules once.
C11_AddInstallsOneRulePerVlan ==
  priv.started =>
    \A i \in MacIdx, a \in Addrs :
      \A r \in Outcomes(priv, "mac_addr_add", a, i, {}, 0) :
        (r.ret = 0) =>
          \A q \in HashIdx(priv) :
            LET flows == r.c.priv.hash_rxqs[q].mac_flow[i]
                en == EnabledVlans(priv)
            IN /\ MacRules(r.c.priv, q, i) = (IF en = {} THEN {0} ELSE en)
               /\ \A v \in en : flows[v] = <<"eth", a, priv.vlan_filter[v].id, VLAN_MASK>>
               /\ (en = {}) => flows[0] = <<"eth", a, 0, 0>>
               /\ \A v \in MacRules(r.c.priv, q, i) :
                    Cardinality({x \in 1 .. Len(r.c.log) :
                                   r.c.log[x] = <<"create_mac", q, i, v>>}) = 1

\* a started device with VLAN entry 1 enabled and entry 0 disabled, on which an
\* add succeeded: slot i holds the address with one rule at position 1 only
C11_Witness ==
  /\ priv.started
  /\ EnabledVlans(priv) = {1}
  /\ \E i \in MacIdx :
       /\ priv.mac_configured[i] /\ priv.mac[i] = 1
       /\ \A q \in HashIdx(priv) : MacRules(priv, q, i) = {1}
       /\ mlx5_mac_addr_add(ctx(priv, {}, 0), 0, i).ret = 0

\* C12: remove(i) on a configured slot destroys every rule installed for slot
\* i on every hash RX queue exactly once (and nothing else) and clears the
\* slot's configured flag, leaving the rules and the configured flags of all
\* other slots, the broad rules and the stored addresses unchanged; remove(i)
\* on an unconfigured slot changes nothing and calls the hardware not at all.
C12_RemoveDestroysSlotRules ==
  \A i \in MacIdx :
    \A r \in Outcomes(priv, "mac_addr_remove", 0, i, {}, 0) :
      LET log == r.c.log
          held == {qv \in HashIdx(priv) \X VlanIdx : qv[2] \in MacRules(priv, qv[1], i)}
      IN IF priv.mac_configured[i]
         THEN /\ \A x \in 1 .. Len(log) :
                   /\ log[x][1] = "destroy_mac" /\ log[x][3] = i
                   /\ <<log[x][2], log[x][4]>> \in held
              /\ \A qv \in held :
                   Cardinality({x \in 1 .. Len(log) :
                                  log[x] = <<"destroy_mac", qv[1], i, qv[2]>>}) = 1
              /\ Len(log) = Cardinality(held)
              /\ r.c.priv =
                   [priv EXCEPT
                      !.mac_configured[i] = FALSE,
                      !.hash_rxqs = [q \in HashIdx(priv) |->
                         [priv.hash_rxqs[q] EXCEPT
                            !.mac_flow[i] = [v \in VlanIdx |-> NULL],
                            !.mac_configured[i] = FALSE]]]
         ELSE r.c.priv = priv /\ log = <<>>

\* a started device where slots i and j are configured with rules on every
\* queue, two of them per queue for slot i: remove(i) is the call of the claim
C12_Witness ==
  /\ priv.started
  /\ \E i, j \in MacIdx :
       /\ i # j
       /\ priv.mac_configured[i] /\ priv.mac_configured[j]
       /\ \A q \in HashIdx(priv) :
            Cardinality(MacRules(priv, q, i)) = 2 /\ MacRules(priv, q, j) # {}
       /\ Len(mlx5_mac_addr_remove(ctx(priv, {}, 0), i).c.log) = 2 * MaxHashRxqs

\* C13: the mode toggles are idempotent. priv_promiscuous_enable /
\* priv_allmulticast_enable called with that mode's flag set, and the matching
\* disable called with the flag clear, return success and leave the device
\* state untouched without any hardware call, whatever the hardware would have
\* answered; the DPDK callback around them records the request and changes no
\* mode flag, no configured flag and no rule.
C13_TogglesIdempotent ==
  \A F \in {{}, {1}}, E \in ErrnoSet :
    LET c == ctx(priv, F, E)
        same(r) == /\ r.ret = 0
                   /\ r.c.log = <<>> /\ r.c.n = 0 /\ r.c.ok
                   /\ r.c.priv.hash_rxqs = priv.hash_rxqs
                   /\ r.c.priv.promisc = priv.promisc
                   /\ r.c.priv.allmulti = priv.allmulti
                   /\ r.c.priv.mac_configured = priv.mac_configured
                   /\ r.c.priv.mac = priv.mac
    IN /\ priv.promisc =>
            /\ priv_promiscuous_enable(c) = [c |-> c, ret |-> 0]
            /\ same(mlx5_promiscuous_enable(c))
       /\ ~priv.promisc =>
            /\ priv_promiscuous_disable(c) = c
            /\ same(mlx5_promiscuous_disable(c))
       /\ priv.allmulti =>
            /\ priv_allmulticast_enable(c) = [c |-> c, ret |-> 0]
            /\ same(mlx5_allmulticast_enable(c))
       /\ ~priv.allmulti =>
            /\ priv_allmulticast_disable(c) = c
            /\ same(mlx5_allmulticast_disable(c))

\* a started device in promiscuous mode, allmulticast off, with a configured
\* slot and a promiscuous rule on every queue: a second enable_promiscuous and
\* a disable_allmulticast are the idempotent calls
C13_Witness ==
  /\ priv.started /\ priv.promisc /\ ~priv.allmulti
  /\ \E i \in MacIdx : priv.mac_configured[i]
  /\ \A q \in HashIdx(priv) : priv.hash_rxqs[q].promisc_flow # NULL
  /\ mlx5_promiscuous_enable(ctx(priv, {1}, 0)).ret = 0
  /\ mlx5_allmulticast_disable(ctx(priv, {}, 0)).c.log = <<>>

\* C14 (as claimed): enable_promiscuous fails with EBUSY whenever a promiscuous
\* rule is already present on some hash RX queue at the time of the call.
C14_EnableFailsWhenRulePresent ==
  (\E q \in HashIdx(priv) : priv.hash_rxqs[q].promisc_flow # NULL) =>
    \A r \in OutcomesOf(priv, "promiscuous_enable", 0, 0) : r.ret = EBUSY

\* C14 (amended): hash_rxq_promiscuous_enable fails with EBUSY, creating
\* nothing and calling the hardware not at all, on a queue that already holds
\* a promiscuous rule; such a rule exists only while the device's promiscuous
\* flag is set, and then enable_promiscuous returns success without touching
\* any queue, so that it never reports EBUSY.
C14_QueueBusyDeviceIdempotent ==
  /\ \A q \in HashIdx(priv) :
       (priv.hash_rxqs[q].promisc_flow # NULL) =>
         /\ priv.promisc
         /\ \A F \in {{}, {1}}, E \in ErrnoSet :
              hash_rxq_promiscuous_enable(ctx(priv, F, E), q) =
                [c |-> ctx(priv, F, E), ret |-> EBUSY]
  /\ \A r \in OutcomesOf(priv, "promiscuous_enable", 0, 0) :
       /\ r.ret # EBUSY
       /\ priv.promisc => (r.ret = 0 /\ r.c.log = <<>> /\ r.c.n = 0)

\* a started device in promiscuous mode with a promiscuous rule on every queue
\* and a configured MAC slot
C14_Witness ==
  /\ priv.started /\ priv.promisc
  /\ \E i \in MacIdx : priv.mac_configured[i]
  /\ \A q \in HashIdx(priv) :
       /\ priv.hash_rxqs[q].promisc_flow # NULL
       /\ hash_rxq_promiscuous_enable(ctx(priv, {}, 0), q).ret = EBUSY
  /\ mlx5_promiscuous_enable(ctx(priv, {}, 0)).ret = 0

\* device state p with the promiscuous state inverted: flag and every queue's
\* promiscuous flow
OtherPromisc(p) ==
  [p EXCEPT !.promisc = ~@,
            !.hash_rxqs = [q \in HashIdx(p) |->
               [p.hash_rxqs[q] EXCEPT
                  !.promisc_flow = IF @ = NULL THEN PROMISC_FLOW ELSE NULL]]]

\* C15: allmulticast is independent of promiscuous mode and of MAC filtering.
\* enable_allmulticast and disable_allmulticast, successful or failed, create
\* and destroy allmulticast rules only: per-MAC rules, promiscuous rules, the
\* promiscuous flag, the MAC table and its flags are unchanged; and run on the
\* same device with the promiscuous state inverted they return the same code,
\* make the same hardware calls and leave the same allmulticast state.
C15_AllmulticastIndependent ==
  \A op \in {"allmulticast_enable", "allmulticast_disable"}, E \in ErrnoSet :
    \A r \in Outcomes(priv, op, 0, 0, {}, E) :
      /\ \A x \in 1 .. Len(r.c.log) :
           r.c.log[x][1] \in {"create_allmulti", "destroy_allmulti"}
      /\ \A q \in HashIdx(priv) :
           /\ r.c.priv.hash_rxqs[q].mac_flow = priv.hash_rxqs[q].mac_flow
           /\ r.c.priv.hash_rxqs[q].mac_configured = priv.hash_rxqs[q].mac_configured
           /\ r.c.priv.hash_rxqs[q].promisc_flow = priv.hash_rxqs[q].promisc_flow
      /\ r.c.priv.promisc = priv.promisc
      /\ r.c.priv.mac = priv.mac
      /\ r.c.priv.mac_configured = priv.mac_configured
      /\ LET o == callback(OtherPromisc(priv), op, 0, 0, r.c.fail, E)
         IN /\ o.ret = r.ret
            /\ o.c.log = r.c.log
            /\ o.c.n = r.c.n
            /\ o.c.priv.allmulti = r.c.priv.allmulti
            /\ \A q \in HashIdx(priv) :
                 o.c.priv.hash_rxqs[q].allmulti_flow = r.c.priv.hash_rxqs[q].allmulti_flow

\* a started device in promiscuous and allmulticast mode with a configured
\* slot and both broad rules on every queue: disable_allmulticast destroys one
\* rule per queue
C15_Witness ==
  /\ priv.started /\ priv.promisc /\ priv.allmulti
  /\ \E i \in MacIdx : priv.mac_configured[i]
  /\ \A q \in HashIdx(priv) :
       priv.hash_rxqs[q].promisc_flow # NULL /\ priv.hash_rxqs[q].allmulti_flow # NULL
  /\ Len(mlx5_allmulticast_disable(ctx(priv, {}, 0)).c.log) = MaxHashRxqs

\* ------------------------------------------------------- properties (RX)
\* values of errno left by a failing Verbs call
RxErrnos == {0, ENOMEM}

\* every receive queue of the device has been set up
RxqsReady(p) == p.rxqs_n > 0 /\ \A i \in DOMAIN p.rxqs : p.rxqs[i] # NULL

\* the objects created / the number of times h was released, in one call
LogCreated(log) == {log[i][2] : i \in {j \in DOMAIN log : log[j][1] = "create"}}
LogDestroys(log, h) ==
  Cardinality({i \in DOMAIN log : log[i][1] = "destroy" /\ log[i][2] = h})

\* the error priv_create_hash_rxqs reports when its call number f fails:
\* the two rte_calloc() give ENOMEM, a Verbs call gives errno or EINVAL
HashRxqsError(p, f, E) ==
  LET tables_n == IF p.rxqs_n = 1 THEN Len(ind_table_init_no_rss)
                  ELSE Len(ind_table_init_rss)
  IN IF f = 1 \/ f = tables_n + 2 THEN ENOMEM ELSE IF E # 0 THEN E ELSE EINVAL

\* C16: construction of the hash RX queues is all-or-nothing.  Whenever
\* priv_create_hash_rxqs runs on a device without hash RX queues whose
\* receive queues are set up and one of its allocations or creations fails,
\* every QP and indirection table the call created has been destroyed exactly
\* once, no object of the call remains, priv (hash_rxqs, ind_tables and their
\* counts included) is unchanged, and the error of the failing step is
\* returned.
C16_HashRxqsAllOrNothing ==
  (priv.hash_rxqs_n = 0 /\ RxqsReady(priv))
    => \A E \in RxErrnos :
         \A f \in 1 .. rx_callback(priv, "create_hash_rxqs", 0, 0, {}, E).c.n :
           LET r == rx_callback(priv, "create_hash_rxqs", 0, 0, {f}, E)
           IN /\ r.ret = HashRxqsError(priv, f, E)
              /\ r.ret # 0
              /\ r.c.ok
              /\ r.c.priv = priv
              /\ r.c.priv.hash_rxqs = NULL /\ r.c.priv.hash_rxqs_n = 0
              /\ r.c.priv.ind_tables = NULL /\ r.c.priv.ind_tables_n = 0
              /\ r.c.live = PrivObjs(priv)
              /\ \A h \in LogCreated(r.c.log) : LogDestroys(r.c.log, h) = 1

\* C16 witness: a QP creation fails after both indirection tables and some
\* QPs have been created
C16_Witness ==
  /\ priv.hash_rxqs_n = 0
  /\ RxqsReady(priv)
  /\ \E f \in 1 .. rx_callback(priv, "create_hash_rxqs", 0, 0, {}, 0).c.n :
       LET r == rx_callback(priv, "create_hash_rxqs", 0, 0, {f}, 0)
       IN /\ r.ret # 0
          /\ \E h \in LogCreated(r.c.log) : h[1] = "qp"
          /\ Cardinality({h \in LogCreated(r.c.log) : h[1] = "ind_table"}) = 2

\* number of entries of indirection table i of the device (1 is the first)
IndTableSize(p, i) == Shl1(p.ind_tables.at[i].log_ind_tbl_size)

IsPowerOfTwo(n) == \E l \in 0 .. (n + 1) : n = Shl1(l)
NextPowerOfTwo(n) ==
  CHOOSE s \in 1 .. (2 * n + 1) :
    /\ IsPowerOfTwo(s) /\ s >= n
    /\ \A t \in 1 .. (2 * n + 1) : (IsPowerOfTwo(t) /\ t >= n) => s <= t

CyclicTables(q, p) ==
  \A t \in 1 .. q.ind_tables_n :
    /\ Len(q.ind_tables.at[t].ind_tbl) = IndTableSize(q, t)
    /\ \A i \in 0 .. (IndTableSize(q, t) - 1) :
         q.ind_tables.at[t].ind_tbl[i + 1] = p.rxqs[i % p.rxqs_n].s.wq

\* C18: an indirection table larger than the number of receive queues is
\* padded by cyclic repetition.  Whenever priv_create_hash_rxqs succeeds on a
\* device whose receive queues are set up, entry i of each table it creates
\* refers to the work queue of receive queue i mod rxqs_n; the tables of a
\* started device are of that form.
C18_TablePaddedCyclically ==
  /\ (priv.hash_rxqs_n = 0 /\ RxqsReady(priv))
       => LET r == rx_callback(priv, "create_hash_rxqs", 0, 0, {}, 0)
          IN r.ret = 0 => (r.c.priv.ind_tables # NULL /\ CyclicTables(r.c.priv, priv))
  /\ (priv.started /\ priv.ind_tables # NULL) => CyclicTables(priv, priv)

\* C18 witness: a started device whose table is larger than its number of
\* receive queues, the queues having pairwise distinct work queues
C18_Witness ==
  /\ priv.started
  /\ priv.ind_tables # NULL
  /\ IndTableSize(priv, 1) > priv.rxqs_n
  /\ \A i, j \in DOMAIN priv.rxqs :
       /\ priv.rxqs[i].s.wq # NULL
       /\ i # j => priv.rxqs[i].s.wq # priv.rxqs[j].s.wq
  /\ priv.ind_tables.at[1].ind_tbl[priv.rxqs_n + 1] = priv.rxqs[0].s.wq

\* rxq_setup on a struct rxq of contents rxq in device state p, its calls
\* numbered in F failing with errno E
SetupOf(p, rxq, desc, F, E) ==
  rxq_setup(rx_ctx(p, PrivObjs(p), F, E), p, rxq, desc, 0, Mempool)

\* C19: rxq_setup returns a non-zero error code whenever one of its steps
\* fails, when called on a zeroed struct rxq: a descriptor count that is zero or not a multiple of
\* MLX5_PMD_SGE_WR_N, or the failure of any one of the calls it makes (buffer
\* probe, memory region, resource domain, completion queue, work queue, ring
\* allocation, interface queries, ready transition, posting).
C19_SetupFailureReported ==
  \A desc \in Descs, E \in RxErrnos :
    /\ (desc = 0 \/ desc % MLX5_PMD_SGE_WR_N # 0) => SetupOf(priv, rxq_zero, desc, {}, E).ret # 0
    /\ \A f \in 1 .. SetupOf(priv, rxq_zero, desc, {}, E).c.n :
         SetupOf(priv, rxq_zero, desc, {f}, E).ret # 0

\* the objects held after events i.. of the log of one call, held being those
\* held before; obtaining an object that is held, or releasing one that is
\* not, leaves the mark <<"unbalanced">> in the result
RECURSIVE LogHeld(_, _, _)
LogHeld(log, i, held) ==
  IF i > Len(log)
  THEN held
  ELSE IF log[i][1] = "create"
       THEN LogHeld(log, i + 1,
                    IF log[i][2] \in held THEN held \cup {<<"unbalanced">>}
                    ELSE held \cup {log[i][2]})
       ELSE IF log[i][1] = "destroy"
            THEN LogHeld(log, i + 1,
                         IF log[i][2] \in held THEN held \ {log[i][2]}
                         ELSE held \cup {<<"unbalanced">>})
            ELSE LogHeld(log, i + 1, held)

\* in the log of one call every object is released once for each time it was
\* obtained, after it was obtained, and none is held at the end
LogBalanced(log) == LogHeld(log, 1, {}) = {}

\* C20: after rxq_setup fails at any step, every object it obtained (memory
\* region, resource domain, completion queue, work queue, queried
\* interfaces, ring and buffers) has been released exactly once, nothing it
\* did not obtain has been released, and the caller's struct rxq and the
\* device are unmodified; the caller's struct is a zeroed one or an existing
\* queue of the device.  (The only assertion that can fail is the one on the
\* returned value, when the failing step leaves it 0; errno, which only feeds
\* the returned value, is 0.)
C20_SetupFailureReleasesAll ==
  \A desc \in Descs :
    \A rxq \in {rxq_zero} \cup {priv.rxqs[i].s : i \in {j \in DOMAIN priv.rxqs :
                                                       priv.rxqs[j] # NULL}} :
      \A f \in 1 .. SetupOf(priv, rxq, desc, {}, 0).c.n :
        LET r == SetupOf(priv, rxq, desc, {f}, 0)
        IN /\ r.rxq = rxq
           /\ r.c.priv = priv
           /\ r.c.live = PrivObjs(priv)
           /\ LogBalanced(r.c.log)
           /\ r.c.ok <=> r.ret > 0

\* C20 witness: with another queue set up, posting the last descriptor of
\* a ring fails: the region, the domain, both queues, both interfaces, the
\* ring and its buffers had been obtained
C20_Witness ==
  /\ \E i \in DOMAIN priv.rxqs : priv.rxqs[i] # NULL /\ priv.rxqs[i].s.wq # NULL
  /\ \E desc \in Descs :
       LET n == SetupOf(priv, rxq_zero, desc, {}, 0).c.n
           r == SetupOf(priv, rxq_zero, desc, {n}, 0)
       IN /\ n > 0
          /\ r.ret = EIO
          /\ {"mr", "rd", "cq", "wq", "intf", "elts", "mbuf"}
               \subseteq {h[1] : h \in LogCreated(r.c.log)}
          /\ r.c.live = PrivObjs(priv)

\* C21: rxq_setup refuses a descriptor count that is zero or not a multiple
\* of MLX5_PMD_SGE_WR_N with EINVAL, whether the device configuration selects
\* scattered mode or not, before it makes any call that allocates a buffer or
\* creates an object: whatever the oracle, no call is made, the log is empty
\* and the caller's struct and the device are unchanged.
C21_InvalidDescRefusedFirst ==
  \A desc \in {d \in Descs : d = 0 \/ d % MLX5_PMD_SGE_WR_N # 0} :
    \A E \in RxErrnos, F \in {{}, {1}} :
      \A rxq \in {rxq_zero} \cup {priv.rxqs[i].s : i \in {j \in DOMAIN priv.rxqs :
                                                         priv.rxqs[j] # NULL}} :
        LET r == SetupOf(priv, rxq, desc, F, E)
        IN /\ r.ret = EINVAL
           /\ r.c.n = 0
           /\ r.c.log = <<>>
           /\ r.c.live = PrivObjs(priv)
           /\ r.rxq = rxq
           /\ r.c.priv = priv
           /\ r.c.ok

\* C21 witness: a device in scattered mode with a queue set up, on which a
\* count that is not a multiple of MLX5_PMD_SGE_WR_N is refused
C21_Witness ==
  /\ \E i \in DOMAIN priv.rxqs : priv.rxqs[i] # NULL /\ priv.rxqs[i].s.sp
  /\ \E desc \in Descs :
       /\ desc # 0
       /\ desc % MLX5_PMD_SGE_WR_N # 0
       /\ SetupOf(priv, rxq_zero, desc, {}, 0).ret = EINVAL
       /\ SetupOf(priv, rxq_zero, desc, {}, 0).c.n = 0

\* ------------------------------------------------ concurrent callers
Threads == 1 .. MaxThreads

thread_idle(calls) ==
  [pc |-> "idle", calls |-> calls, idx |-> 0, desc |-> 0, rxq |-> NULL]

\* a device that is not started, called by several threads
InitLock ==
  /\ \E rxqs_n \in 1 .. MaxRehashRxqs, conf \in DevConfs :
       priv \in {rx_priv_init(rxqs_n, MaxIndTableSize, caps, conf) : caps \in HwCaps}
  /\ asserts_ok = TRUE
  /\ threads = [heap |-> {}, uaf |-> FALSE, t |-> [i \in Threads |-> thread_idle(0)]]

\* mlx5_rx_queue_setup() up to priv_lock(): struct rxq *rxq =
\* (*priv->rxqs)[idx] is read before the lock is taken
RxQueueSetupRead(i) ==
  /\ asserts_ok
  /\ threads.t[i].pc = "idle"
  /\ threads.t[i].calls < MaxCalls
  /\ \E idx \in 0 .. (priv.rxqs_n - 1), desc \in Descs :
       threads' = [threads EXCEPT
                     !.t[i] = [pc |-> "rx_queue_setup", calls |-> @.calls + 1,
                               idx |-> idx, desc |-> desc, rxq |-> priv.rxqs[idx]]]
  /\ UNCHANGED <<priv, asserts_ok>>

\* what the pointer rxq read earlier points to now: the struct of the slot
\* that holds the same pointer, else the struct as it was
rxq_deref(p, rxq) ==
  IF rxq = NULL
  THEN NULL
  ELSE IF \E j \in RxqIdx(p) : p.rxqs[j].mem = rxq.mem
       THEN p.rxqs[CHOOSE j \in RxqIdx(p) : p.rxqs[j].mem = rxq.mem]
       ELSE rxq

\* mlx5_rx_queue_setup() from priv_lock() to priv_unlock(), with the value of
\* rxq that was read before the lock.  r is the outcome for a slot holding
\* that value: when rxq is NULL the slot is written on success only, so that
\* it keeps what it holds when the call fails.
rx_queue_setup_slot(r, p, rxq, idx) ==
  IF rxq = NULL /\ r.c.priv.rxqs[idx] = NULL
  THEN [r EXCEPT !.c.priv.rxqs[idx] = p.rxqs[idx]]
  ELSE r

rx_queue_setup_locked(p, heap, rxq, idx, desc, F) ==
  rx_queue_setup_slot(
    mlx5_rx_queue_setup(rx_ctx([p EXCEPT !.rxqs[idx] = rxq_deref(p, rxq)], heap, F, 0),
                        idx, desc, 0, Mempool),
    p, rxq, idx)

LockedOutcomesFrom(r, p, heap, rxq, idx, desc) ==
  {r} \cup {rx_queue_setup_locked(p, heap, rxq, idx, desc, {f}) : f \in 1 .. r.c.n}

LockedOutcomes(p, heap, rxq, idx, desc) ==
  LockedOutcomesFrom(rx_queue_setup_locked(p, heap, rxq, idx, desc, {}),
                     p, heap, rxq, idx, desc)

\* the rest of mlx5_rx_queue_setup(), one step under the lock; a pointer to
\* a struct rxq that was freed in the meantime is used after free
RxQueueSetupLocked(i) ==
  /\ asserts_ok
  /\ threads.t[i].pc = "rx_queue_setup"
  /\ IF threads.t[i].rxq # NULL /\ threads.t[i].rxq.mem \notin threads.heap
     THEN /\ threads' = [threads EXCEPT !.uaf = TRUE,
                                        !.t[i] = thread_idle(@.calls)]
          /\ asserts_ok' = FALSE
          /\ UNCHANGED priv
     ELSE \E r \in LockedOutcomes(priv, threads.heap, threads.t[i].rxq,
                                  threads.t[i].idx, threads.t[i].desc) :
            /\ priv' = r.c.priv
            /\ asserts_ok' = r.c.ok
            /\ threads' = [threads EXCEPT !.heap = r.c.live,
                                          !.t[i] = thread_idle(@.calls)]

\* mlx5_rx_queue_release() on the queue of a slot, one step under the lock
RxQueueReleaseLocked(i) ==
  /\ asserts_ok
  /\ threads.t[i].pc = "idle"
  /\ threads.t[i].calls < MaxCalls
  /\ \E idx \in 0 .. (priv.rxqs_n - 1) :
       \E c \in {mlx5_rx_queue_release(rx_ctx(priv, threads.heap, {}, 0),
                                        priv.rxqs[idx])} :
         /\ priv' = c.priv
         /\ asserts_ok' = c.ok
         /\ threads' = [threads EXCEPT !.heap = c.live,
                                       !.t[i] = thread_idle(@.calls + 1)]

NextLock ==
  \E i \in Threads :
    \/ RxQueueSetupRead(i)
    \/ RxQueueSetupLocked(i)
    \/ RxQueueReleaseLocked(i)

SpecLock == InitLock /\ [][NextLock]_vars

\* C27: the device lock serializes the callbacks of concurrent callers: no
\* struct rxq is used after it was freed, and when no call is in progress
\* every object that exists is one the device refers to (none is leaked), as
\* after the calls made one after the other in some order
C27_LockSerializes ==
  /\ ~threads.uaf
  /\ (\A i \in Threads : threads.t[i].pc = "idle") =>
       threads.heap = PrivObjs(priv)

\* ------------------------------------------------------------ rehash
\* the buffers the ring of a queue holds
RingBufs(rxq) == EltsObjs(rxq.elts) \ {IF rxq.elts = NULL THEN NULL ELSE rxq.elts.mem}

\* the outcomes of rxq_rehash() on queue idx of p
RehashOutcomes(p, idx) == RxOutcomes(p, "rxq_rehash", idx, 0, 0)

\* C22: a rxq_rehash() that succeeds, in either direction, leaves the ring
\* of the queue with as many buffers as it held before, whatever setups,
\* rehashes and releases came before
C22_RehashPreservesBufferCount ==
  \A idx \in RxqIdx(priv) :
    \A r \in RehashOutcomes(priv, idx) :
      (r.c.ok /\ r.ret = 0) =>
        Cardinality(RingBufs(r.c.priv.rxqs[idx].s))
          = Cardinality(RingBufs(priv.rxqs[idx].s))

\* a scattered queue that holds buffers is rehashed to a non-scattered one
C22_Witness ==
  \E idx \in RxqIdx(priv) :
    /\ priv.rxqs[idx].s.sp
    /\ RingBufs(priv.rxqs[idx].s) # {}
    /\ \E r \in RehashOutcomes(priv, idx) :
         r.c.ok /\ r.ret = 0 /\ ~r.c.priv.rxqs[idx].s.sp

\* the call whose log this is left work queue wq in the reset state: it moved
\* wq to IBV_EXP_WQS_RESET and did not move it to IBV_EXP_WQS_RDY afterwards
WqLeftReset(log, wq) ==
  \E i \in 1 .. Len(log) :
    /\ log[i] = <<"modify_wq", wq, "RESET">>
    /\ \A j \in (i + 1) .. Len(log) : log[j] # <<"modify_wq", wq, "RDY">>

\* the ring reallocation of rxq_rehash() is the only step that returns ENOMEM
ReallocFailed(r) == r.c.ok /\ r.ret = ENOMEM

\* C23: when the ring reallocation fails during rxq_rehash(), the live queue
\* is left untouched: its ring and buffers are the original ones, its fields
\* are as before the call, and its work queue was not left in another state
C23_ReallocFailureLeavesQueueUntouched ==
  \A idx \in RxqIdx(priv) :
    \A r \in RehashOutcomes(priv, idx) :
      ReallocFailed(r) =>
        /\ r.c.priv.rxqs[idx] = priv.rxqs[idx]
        /\ ~WqLeftReset(r.c.log, priv.rxqs[idx].s.wq)

\* the descriptors the call whose log this is posted to work queue wq
LogPosted(log, wq) ==
  {i \in 1 .. Len(log) : log[i][1] = "post" /\ log[i][2] = wq}

\* C24: after a rxq_rehash() that succeeds with a changed scatter mode the
\* work queue has been moved back to the ready state and every descriptor of
\* the new ring has been posted to it: as many descriptors are posted as the
\* new ring has
C24_RehashRepostsNewRing ==
  \A idx \in RxqIdx(priv) :
    \A r \in RehashOutcomes(priv, idx) :
      (r.c.ok /\ r.ret = 0 /\ r.c.priv.rxqs[idx].s.sp # priv.rxqs[idx].s.sp) =>
        /\ ~WqLeftReset(r.c.log, r.c.priv.rxqs[idx].s.wq)
        /\ Cardinality(LogPosted(r.c.log, r.c.priv.rxqs[idx].s.wq))
             = r.c.priv.rxqs[idx].s.elts_n

\* --------------------------------------------------- ring allocation
\* the ring sizes explored
RingSizes == {1, 2}

\* rxq_alloc_elts_sp() (sp) or rxq_alloc_elts() of a ring of elts_n elements
\* for queue rxq in device state p, buffers taken from the mempool, the calls
\* numbered in F failing
AllocOf(p, rxq, sp, elts_n, F) ==
  IF sp
  THEN rxq_alloc_elts_sp(rx_ctx(p, PrivObjs(p), F, 0), rxq, elts_n, NULL)
  ELSE rxq_alloc_elts(rx_ctx(p, PrivObjs(p), F, 0), rxq, elts_n, NULL)

\* the structs the allocation is tried on: the template of rxq_setup() and
\* the queues of the device
AllocRxqs(p) ==
  {rxq_setup_tmpl(p, 0, Mempool, MbufLen)} \cup {p.rxqs[i].s : i \in RxqIdx(p)}

\* C25: when rte_pktmbuf_alloc() fails partway through rxq_alloc_elts() or
\* rxq_alloc_elts_sp() (call f, after the array and f - 2 buffers were
\* obtained), every buffer obtained in the call and the array are freed
\* exactly once, nothing else is freed, ENOMEM is returned and the queue's
\* ring pointer, element count and head are those from before the call
C25_AllocFailureFreesAll ==
  \A rxq \in AllocRxqs(priv), sp \in BOOLEAN, elts_n \in RingSizes :
    \A f \in 2 .. AllocOf(priv, rxq, sp, elts_n, {}).c.n :
      LET r == AllocOf(priv, rxq, sp, elts_n, {f})
      IN /\ r.ret = ENOMEM
         /\ r.c.ok
         /\ Cardinality({h \in LogCreated(r.c.log) : h[1] = "mbuf"}) = f - 2
         /\ LogBalanced(r.c.log)
         /\ r.c.live = PrivObjs(priv)
         /\ r.rxq.elts = rxq.elts
         /\ r.rxq.elts_n = rxq.elts_n
         /\ r.rxq.elts_head = rxq.elts_head
         /\ r.rxq = rxq

\* C25 witness: on a device with a queue set up, the allocation of the last
\* buffer of a scattered ring fails after the other buffers were obtained
C25_Witness ==
  /\ \E i \in RxqIdx(priv) : priv.rxqs[i].s.elts # NULL
  /\ \E rxq \in AllocRxqs(priv), elts_n \in RingSizes :
       LET n == AllocOf(priv, rxq, TRUE, elts_n, {}).c.n
           r == AllocOf(priv, rxq, TRUE, elts_n, {n})
       IN /\ n = 1 + elts_n * MLX5_PMD_SGE_WR_N
          /\ r.ret = ENOMEM
          /\ Cardinality({h \in LogCreated(r.c.log) : h[1] = "mbuf"}) = n - 2
          /\ {h \in LogCreated(r.c.log) : h[1] = "mbuf"}
               \cap PrivObjs(priv) = {}
          /\ r.c.live = PrivObjs(priv)

\* ------------------------------------------------------------- release
\* the queue in a slot has been torn down: the slot is empty, or the struct
\* it points to holds no object, as rxq_cleanup() leaves it
TornDown(slot) == slot = NULL \/ RxqObjs(slot) = {slot.mem}

LogDestroyed(log) == {log[i][2] : i \in {j \in DOMAIN log : log[j][1] = "destroy"}}

\* C26: releasing a receive queue that has already been torn down is safe:
\* no hardware object and no buffer is released, and the device is left as
\* it was, the slot of the queue being empty; and rxq_cleanup() after
\* rxq_cleanup() on any queue changes nothing
C26_ReleaseIdempotent ==
  /\ \A idx \in DOMAIN priv.rxqs :
       TornDown(priv.rxqs[idx]) =>
         \A r \in RxOutcomes(priv, "rx_queue_release", idx, 0, 0) :
           /\ r.c.ok
           /\ {h \in LogDestroyed(r.c.log) : h[1] # "rxq"} = {}
           /\ r.c.priv = [priv EXCEPT !.rxqs[idx] = NULL]
  /\ \A idx \in RxqIdx(priv) :
       LET a == rxq_cleanup(rx_ctx(priv, PrivObjs(priv), {}, 0), priv.rxqs[idx].s)
       IN rxq_cleanup(a.c, a.rxq) = a

\* ------------------------------------------------ promiscuous mode, again
\* C28: when enable_promiscuous fails on a hash RX queue of a started
\* device, every hash RX queue, the failing one included, holds on return
\* the per-MAC rules it held before the call
C28_FailedEnableKeepsMacRules ==
  priv.started =>
    \A r \in Outcomes(priv, "promiscuous_enable", 0, 0, {}, 0) :
      (r.ret \notin {0, NoCall}) =>
        \A q \in HashIdx(priv), i \in MacIdx :
          MacRules(r.c.priv, q, i) = MacRules(priv, q, i)

\* C29: on a device that is not a VF, between calls, the promiscuous flag of
\* the device is set iff every hash RX queue holds a promiscuous rule, and
\* clear iff none does; likewise the allmulticast flag and the allmulticast
\* rules
C29_FlagMatchesBroadRules ==
  ~priv.vf =>
    \A q \in HashIdx(priv) :
      /\ priv.promisc <=> priv.hash_rxqs[q].promisc_flow # NULL
      /\ priv.allmulti <=> priv.hash_rxqs[q].allmulti_flow # NULL

\* C29 witness: a started device that is not a VF, with a MAC address
\* configured, in promiscuous mode and not in allmulticast mode
C29_Witness ==
  /\ ~priv.vf
  /\ priv.started
  /\ priv.hash_rxqs_n = MaxHashRxqs
  /\ \E i \in MacIdx : priv.mac_configured[i]
  /\ priv.promisc
  /\ ~priv.allmulti
  /\ \A q \in HashIdx(priv) :
       priv.hash_rxqs[q].promisc_flow # NULL /\ priv.hash_rxqs[q].allmulti_flow = NULL

\* C30: while promiscuous mode is active on a started device no hash RX
\* queue holds a per-MAC rule, whatever MAC additions and removals were made
\* since it was enabled
C30_NoMacRuleWhilePromiscuous ==
  (priv.started /\ priv.promisc) =>
    \A q \in HashIdx(priv) : ~HasMacRule(priv, q)

\* ------------------------------------------------- replacing an address
\* C31: when add(i, a) on a started device fails on a rule creation while
\* slot i was configured with another address b, the device is back in the
\* state from before the call: slot i holds b, its configured flag is set
\* and every hash RX queue holds the rules of slot i it held
C31_FailedReplaceRestoresOld ==
  priv.started =>
    \A i \in MacIdx, a \in Addrs :
      (priv.mac_configured[i] /\ priv.mac[i] # a) =>
        \A r \in Outcomes(priv, "mac_addr_add", a, i, {}, 0) :
          (r.ret \notin {0, NoCall, EADDRINUSE}) =>
            /\ r.c.priv.mac[i] = priv.mac[i]
            /\ r.c.priv.mac_configured[i]
            /\ \A q \in HashIdx(priv) : MacRules(r.c.priv, q, i) = MacRules(priv, q, i)

\* ---------------------------------------------------- disabling filters
\* the three disables, called one after the other in the given order
filter_disable(c, op) ==
  CASE op = "mac" -> priv_mac_addrs_disable(c)
    [] op = "promisc" -> priv_promiscuous_disable(c)
    [] op = "allmulti" -> priv_allmulticast_disable(c)

filters_disable(p, order, F) ==
  filter_disable(filter_disable(filter_disable(ctx(p, F, 0), order[1]), order[2]),
                 order[3])

\* the oracles explored: no rule creation refused, one refused, all refused
DisableOracles(p, order) ==
  LET n == filters_disable(p, order, {}).n
  IN {{}} \cup {{f} : f \in 1 .. n} \cup {1 .. n}

\* what priv_destroy_hash_rxqs() asserts of the rules of every hash RX queue
no_remaining_flows(p) ==
  \A q \in HashIdx(p) :
    /\ p.hash_rxqs[q].allmulti_flow = NULL
    /\ p.hash_rxqs[q].promisc_flow = NULL
    /\ \A j \in MacIdx, k \in VlanIdx : p.hash_rxqs[q].mac_flow[j][k] = NULL

DisableOrders ==
  {o \in [1 .. 3 -> {"mac", "promisc", "allmulti"}] : {o[1], o[2], o[3]}
     = {"mac", "promisc", "allmulti"}}

\* C32 (as claimed): once priv_mac_addrs_disable, priv_promiscuous_disable
\* and priv_allmulticast_disable were called on a started device, in any
\* order, no hash RX queue holds a rule and the assertions of
\* priv_destroy_hash_rxqs() hold
C32_DisabledAnyOrderNoRules ==
  priv.started =>
    \A order \in DisableOrders :
      \A F \in DisableOracles(priv, order) :
        /\ no_remaining_flows(filters_disable(priv, order, F).priv)
        /\ filters_disable(priv, order, F).ok

\* C32 (amended): the same with priv_mac_addrs_disable called after
\* priv_promiscuous_disable
C32_DisabledMacLastNoRules ==
  priv.started =>
    \A order \in {o \in DisableOrders :
                     \E x, y \in 1 .. 3 : x < y /\ o[x] = "promisc" /\ o[y] = "mac"} :
      \A F \in DisableOracles(priv, order) :
        /\ no_remaining_flows(filters_disable(priv, order, F).priv)
        /\ filters_disable(priv, order, F).ok

\* C32 witness: a started device in promiscuous and allmulticast mode whose
\* queues hold per-MAC, promiscuous and allmulticast rules, and on which the
\* disables leave none
C32_Witness ==
  /\ priv.started /\ priv.promisc /\ priv.allmulti
  /\ \A q \in HashIdx(priv) :
       /\ HasMacRule(priv, q)
       /\ priv.hash_rxqs[q].promisc_flow # NULL
       /\ priv.hash_rxqs[q].allmulti_flow # NULL
  /\ no_remaining_flows(
       filters_disable(priv, <<"allmulti", "promisc", "mac">>, {}).priv)
  /\ ~no_remaining_flows(priv)

\* ------------------------------------------------ per-queue configured bit
\* C33: with the enabled VLAN filters fixed, in every reachable state the
\* per-queue configured bit of a hash RX queue for MAC slot i is set exactly
\* when the queue holds at least one rule of slot i, and neither the assertion
\* of hash_rxq_del_flow (handle present) nor the one of hash_rxq_add_flow
\* (position empty) has failed, whatever calls were made and whichever rule
\* creations were refused.
C33_ConfiguredBitIffRules ==
  /\ asserts_ok
  /\ \A q \in HashIdx(priv), i \in MacIdx :
       priv.hash_rxqs[q].mac_configured[i] <=> (MacRules(priv, q, i) # {})

\* a started device where one queue holds the rules of a slot and a slot that
\* is configured at device level has none on that queue
C33_Witness ==
  /\ priv.started
  /\ \E q \in HashIdx(priv), i, j \in MacIdx :
       /\ priv.hash_rxqs[q].mac_configured[i]
       /\ MacRules(priv, q, i) # {}
       /\ priv.mac_configured[j]
       /\ ~priv.hash_rxqs[q].mac_configured[j]
       /\ MacRules(priv, q, j) = {}

\* ------------------------------------------------------ order of rxq_setup
\* positions in a call's log of the creation of object h, of the transition
\* of work queue wq to the ready state
\* (the creation that made the object held at the end of the call: a handle
\* value freed earlier in the call, like the probed mbuf, can be handed out again)
LogCreateAt(log, h) ==
  {i \in DOMAIN log :
     /\ log[i][1] = "create" /\ log[i][2] = h
     /\ \A j \in (i + 1) .. Len(log) : ~(log[j][1] = "create" /\ log[j][2] = h)}
LogReadyAt(log, wq) ==
  {i \in DOMAIN log : log[i][1] = "modify_wq" /\ log[i][2] = wq /\ log[i][3] = "RDY"}
AllBefore(A, B) == A # {} /\ B # {} /\ \A a \in A, b \in B : a < b

\* the structs rxq_setup() is called on: a zeroed one and the queues that exist
SetupRxqs(p) == {rxq_zero} \cup {p.rxqs[i].s : i \in RxqIdx(p)}

\* C34: in a rxq_setup() that succeeds the memory region is registered before
\* the completion queue is created, the completion queue before the work
\* queue, the ring (array and every buffer) is allocated only after the work
\* queue exists, and every descriptor is posted to the work queue after it
\* was moved to the ready state.
C34_SetupStepsInOrder ==
  \A rxq \in SetupRxqs(priv), desc \in Descs :
    LET r == SetupOf(priv, rxq, desc, {}, 0)
        log == r.c.log
        ring == UNION {LogCreateAt(log, h) : h \in EltsObjs(r.rxq.elts)}
    IN (r.c.ok /\ r.ret = 0) =>
         /\ AllBefore(LogCreateAt(log, r.rxq.mr), LogCreateAt(log, r.rxq.cq))
         /\ AllBefore(LogCreateAt(log, r.rxq.cq), LogCreateAt(log, r.rxq.wq))
         /\ AllBefore(LogCreateAt(log, r.rxq.wq), ring)
         /\ Cardinality(LogReadyAt(log, r.rxq.wq)) = 1
         /\ AllBefore(LogReadyAt(log, r.rxq.wq), LogPosted(log, r.rxq.wq))
         /\ Cardinality(LogPosted(log, r.rxq.wq)) = r.rxq.elts_n

\* a device with a queue in scattered mode on which a further setup, of that
\* queue or of a zeroed struct, succeeds
C34_Witness ==
  \E idx \in RxqIdx(priv) :
    /\ priv.rxqs[idx].s.sp
    /\ priv.rxqs[idx].s.wq # NULL
    /\ \A rxq \in {rxq_zero, priv.rxqs[idx].s} :
         LET r == SetupOf(priv, rxq, MLX5_PMD_SGE_WR_N, {}, 0)
         IN r.c.ok /\ r.ret = 0 /\ LogPosted(r.c.log, r.rxq.wq) # {}

\* ------------------------------------------------- depth of the work queue
\* max_recv_wr of the work queue wq created in a call's log
LogWqDepth(log, wq) ==
  LET i == CHOOSE j \in LogCreateAt(log, wq) : TRUE IN log[i][3].max_recv_wr

Min(a, b) == IF a < b THEN a ELSE b

\* rxq_rehash() after the rxmode was changed to conf, on the queue that the
\* rxq_setup() with result r made, its call number f failing
RehashAfter(r, conf, F) ==
  rxq_rehash([r.c EXCEPT !.n = 0, !.fail = F, !.log = <<>>],
             [priv EXCEPT !.dev_conf = conf], r.rxq)

\* C35: the work queue is created with a depth equal to the lesser of the
\* hardware maximum and the requested descriptor count (counted in work
\* requests: a quarter of the descriptors in scattered mode), and neither
\* rxq_setup() nor a later rxq_rehash() posts more descriptors to it than
\* that depth.
C35_PostsWithinWqDepth ==
  \A rxq \in SetupRxqs(priv), desc \in Descs :
    LET r == SetupOf(priv, rxq, desc, {}, 0)
        wrs == IF r.rxq.sp THEN desc \div MLX5_PMD_SGE_WR_N ELSE desc
    IN (r.c.ok /\ r.ret = 0) =>
         /\ LogWqDepth(r.c.log, r.rxq.wq) = Min(priv.device_attr.max_qp_wr, wrs)
         /\ Cardinality(LogPosted(r.c.log, r.rxq.wq)) <= LogWqDepth(r.c.log, r.rxq.wq)
         /\ \A conf \in DevConfs :
              \A f \in 0 .. RehashAfter(r, conf, {}).c.n :
                Cardinality(LogPosted(RehashAfter(r, conf, {f}).c.log, r.rxq.wq))
                  <= LogWqDepth(r.c.log, r.rxq.wq)

\* the part of C35 that holds: the depth is the lesser of the two, and a
\* rehash posts no more than it
C35_DepthIsLesser ==
  \A rxq \in SetupRxqs(priv), desc \in Descs :
    LET r == SetupOf(priv, rxq, desc, {}, 0)
        wrs == IF r.rxq.sp THEN desc \div MLX5_PMD_SGE_WR_N ELSE desc
    IN (r.c.ok /\ r.ret = 0) =>
         /\ LogWqDepth(r.c.log, r.rxq.wq) = Min(priv.device_attr.max_qp_wr, wrs)
         /\ (priv.device_attr.max_qp_wr >= wrs =>
               Cardinality(LogPosted(r.c.log, r.rxq.wq)) <= LogWqDepth(r.c.log, r.rxq.wq))
         /\ \A conf \in DevConfs :
              \A f \in 0 .. RehashAfter(r, conf, {}).c.n :
                Cardinality(LogPosted(RehashAfter(r, conf, {f}).c.log, r.rxq.wq))
                  <= LogWqDepth(r.c.log, r.rxq.wq)

\* ------------------------------------------- scatter flag and ring layout
\* rxq_cleanup() of queue idx of device state p
CleanupOf(p, idx) == rxq_cleanup(rx_ctx(p, PrivObjs(p), {}, 0), p.rxqs[idx].s)

\* C36: after any sequence of setups, rehashes (successful or failed at any
\* step) and releases, the scatter flag of every queue matches the layout of
\* its ring (single-buffer elements exactly when the flag is clear), so that
\* rxq_cleanup() reads the ring through the member it was written through,
\* frees the array and each buffer exactly once and nothing else of the ring.
C36_ScatterFlagMatchesRing ==
  \A idx \in RxqIdx(priv) :
    LET s == priv.rxqs[idx].s
        r == CleanupOf(priv, idx)
    IN /\ (s.elts # NULL) => (s.elts.layout = IF s.sp THEN "sp" ELSE "no_sp")
       /\ asserts_ok => r.c.ok
       /\ \A h \in EltsObjs(s.elts) : LogDestroys(r.c.log, h) = 1
       /\ EltsObjs(s.elts) \cap r.c.live = {}

\* a queue in scattered mode whose rehash to single-buffer mode failed (the
\* checksum offload was switched off, the mode was not), beside a queue with
\* a single-buffer ring
C36_Witness ==
  /\ asserts_ok
  /\ \E idx \in RxqIdx(priv) :
       /\ priv.rxqs[idx].s.elts # NULL
       /\ priv.rxqs[idx].s.sp
       /\ priv.rxqs[idx].s.elts.layout = "sp"
       /\ priv.hw_csum /\ ~priv.rxqs[idx].s.csum
  /\ \E idx \in RxqIdx(priv) :
       /\ priv.rxqs[idx].s.elts # NULL
       /\ ~priv.rxqs[idx].s.sp
       /\ priv.rxqs[idx].s.elts.layout = "no_sp"

\* ---------------------------------------------------------- freeing a ring
\* rxq_free_elts_sp() / rxq_free_elts(), whichever the scatter flag of the
\* struct names, in device state p; then a second call on the result
FreeOf(p, rxq) ==
  IF rxq.sp
  THEN rxq_free_elts_sp(rx_ctx(p, PrivObjs(p), {}, 0), rxq)
  ELSE rxq_free_elts(rx_ctx(p, PrivObjs(p), {}, 0), rxq)

FreeAgain(r, sp) ==
  IF sp
  THEN rxq_free_elts_sp([r.c EXCEPT !.log = <<>>], r.rxq)
  ELSE rxq_free_elts([r.c EXCEPT !.log = <<>>], r.rxq)

\* C37: freeing the ring of a queue releases each of its buffers exactly
\* once, frees the array, releases nothing else and leaves the ring pointer
\* NULL and the element count zero; a second free, by either routine,
\* releases nothing and changes nothing.
C37_RingFreedOnce ==
  \A idx \in RxqIdx(priv) :
    LET s == priv.rxqs[idx].s
        r == FreeOf(priv, s)
    IN /\ asserts_ok => r.c.ok
       /\ \A h \in EltsObjs(s.elts) : LogDestroys(r.c.log, h) = 1
       /\ Len(r.c.log) = Cardinality(EltsObjs(s.elts))
       /\ r.c.live = PrivObjs(priv) \ EltsObjs(s.elts)
       /\ r.rxq = [s EXCEPT !.elts = NULL, !.elts_n = 0]
       /\ \A sp \in BOOLEAN :
            /\ FreeAgain(r, sp).c = [r.c EXCEPT !.log = <<>>]
            /\ FreeAgain(r, sp).rxq = r.rxq

\* a device with a scattered ring and a single-buffer ring, each holding
\* buffers
C37_Witness ==
  /\ asserts_ok
  /\ \E idx \in RxqIdx(priv) :
       priv.rxqs[idx].s.sp /\ Cardinality(RingBufs(priv.rxqs[idx].s)) >= MLX5_PMD_SGE_WR_N
  /\ \E idx \in RxqIdx(priv) :
       ~priv.rxqs[idx].s.sp /\ Cardinality(RingBufs(priv.rxqs[idx].s)) >= MLX5_PMD_SGE_WR_N

\* ------------------------------------------------ headroom of the segments
\* C38: in every ring, built by a setup or rebuilt by a rehash from snatched
\* buffers, the first segment of a scattered descriptor keeps the reserved
\* headroom (data offset = headroom, published address at the headroom,
\* published length = buffer length minus headroom), every later segment has
\* its data offset reset to zero (address at the start of the buffer, full
\* buffer length), and the buffer of a non-scattered descriptor keeps its
\* headroom.
C38_SegmentHeadroom ==
  \A idx \in RxqIdx(priv) :
    LET s == priv.rxqs[idx].s
    IN (s.elts # NULL) =>
         \A i \in 1 .. Len(s.elts.at) :
           IF s.elts.layout = "sp"
           THEN \A j \in 1 .. MLX5_PMD_SGE_WR_N :
                  LET head == IF j = 1 THEN RTE_PKTMBUF_HEADROOM ELSE 0
                  IN /\ s.elts.at[i].offs[j] = head
                     /\ s.elts.at[i].sges[j].addr = head
                     /\ s.elts.at[i].sges[j].length = s.mb_len - head
           ELSE /\ s.elts.at[i].off = RTE_PKTMBUF_HEADROOM
                /\ s.elts.at[i].sge.addr = RTE_PKTMBUF_HEADROOM
                /\ s.elts.at[i].sge.length = s.mb_len - RTE_PKTMBUF_HEADROOM

\* a device with a scattered ring, whose second segment publishes the full
\* buffer, and a single-buffer ring
C38_Witness ==
  /\ asserts_ok
  /\ \E idx \in RxqIdx(priv) :
       /\ priv.rxqs[idx].s.elts # NULL
       /\ priv.rxqs[idx].s.elts.layout = "sp"
       /\ priv.rxqs[idx].s.elts_n * MLX5_PMD_SGE_WR_N = MLX5_PMD_SGE_WR_N
       /\ priv.rxqs[idx].s.elts.at[1].sges[2].length = MbufLen
  /\ \E idx \in RxqIdx(priv) :
       /\ priv.rxqs[idx].s.elts # NULL
       /\ priv.rxqs[idx].s.elts.layout = "no_sp"
       /\ priv.rxqs[idx].s.elts.at[1].sge.length = MbufLen - RTE_PKTMBUF_HEADROOM

\* ------------------------------------------------------- the device lock
\* Callbacks of several threads on one device, the device lock explicit.
\* threads.lock is the thread that holds the lock (0: free), threads.heap the
\* objects that exist.  A thread in priv_lock() waits until the lock is free.
\* What a callback does while it holds the lock is one step, taken when
\* priv_lock() returns; what it did to the lock on the path it took (c.lock)
\* decides whether a priv_unlock() is still to come before it returns.
FilterOps ==
  {"mac_addr_add", "mac_addr_remove", "promiscuous_enable", "promiscuous_disable",
   "allmulticast_enable", "allmulticast_disable"}

IsRxPriv(p) == "rxqs" \in DOMAIN p

cb_idle(calls) == [pc |-> "idle", calls |-> calls, idx |-> 0, desc |-> 0, rxq |-> NULL]

\* the lock is taken first / is still held at the end of a sequence of
\* operations on it
LocksFirst(lock) == lock # <<>> /\ lock[1] = "lock"
LockHeld(lock) ==
  Cardinality({k \in DOMAIN lock : lock[k] = "lock"})
    > Cardinality({k \in DOMAIN lock : lock[k] = "unlock"})

\* a started device with its MAC filters, or a device whose RX queues are
\* being configured
InitCb ==
  /\ \/ \E is_vf \in BOOLEAN, vlans \in SUBSET VlanIdx :
          priv = priv_init(TRUE, is_vf, vlans)
     \/ \E rxqs_n \in 1 .. MaxRehashRxqs, conf \in DevConfs :
          priv \in {rx_priv_init(rxqs_n, MaxIndTableSize, caps, conf) : caps \in HwCaps}
  /\ asserts_ok = TRUE
  /\ threads = [lock |-> 0, heap |-> {}, t |-> [i \in Threads |-> cb_idle(0)]]

\* mlx5_rx_queue_setup() up to priv_lock(): (*priv->rxqs)[idx] is read
CbSetupRead(i) ==
  /\ asserts_ok
  /\ IsRxPriv(priv)
  /\ threads.t[i].pc = "idle"
  /\ threads.t[i].calls < MaxCalls
  /\ \E idx \in 0 .. priv.rxqs_n, desc \in Descs :
       threads' = [threads EXCEPT
                     !.t[i] = [pc |-> "rx_queue_setup", calls |-> @.calls + 1,
                               idx |-> idx, desc |-> desc,
                               rxq |-> IF idx < priv.rxqs_n THEN priv.rxqs[idx]
                                       ELSE NULL]]
  /\ UNCHANGED <<priv, asserts_ok>>

\* mlx5_rx_queue_release(dpdk_rxq) for the pointer of slot idx
CbReleaseOf(p, heap, idx) == mlx5_rx_queue_release(rx_ctx(p, heap, {}, 0), p.rxqs[idx])

\* the outcomes of the callback that thread record t is in (the one it
\* enters, when it is idle) from priv_lock() on
CbOutcomes(p, heap, t) ==
  IF t.pc = "rx_queue_setup"
  THEN IF t.idx >= p.rxqs_n
       THEN {mlx5_rx_queue_setup(rx_ctx(p, heap, {}, 0), t.idx, t.desc, 0, Mempool)}
       ELSE LockedOutcomes(p, heap, t.rxq, t.idx, t.desc)
  ELSE IF IsRxPriv(p)
       THEN {[c |-> CbReleaseOf(p, heap, idx), ret |-> 0] : idx \in DOMAIN p.rxqs}
       ELSE UNION {Outcomes(p, op, mac_addr, index, {}, 0) :
                     op \in FilterOps, mac_addr \in Addrs,
                     index \in 0 .. MLX5_MAX_MAC_ADDRESSES}

\* the thread after a callback that did lock to the device lock: about to
\* call the last priv_unlock(), or returned
cb_after(t, lock) ==
  IF LocksFirst(lock) /\ ~LockHeld(lock)
  THEN [cb_idle(t.calls) EXCEPT !.pc = "priv_unlock"]
  ELSE cb_idle(t.calls)

\* priv_lock() returns, the lock being free, and the callback runs up to
\* its last priv_unlock(): the caller is in mlx5_rx_queue_setup(), or enters
\* one of the other callbacks.  A struct rxq that was freed since its pointer
\* was read is used after free.
CbLock(i) ==
  /\ asserts_ok
  /\ threads.lock = 0
  /\ \/ threads.t[i].pc = "rx_queue_setup"
     \/ (threads.t[i].pc = "idle" /\ threads.t[i].calls < MaxCalls)
  /\ IF /\ threads.t[i].pc = "rx_queue_setup"
        /\ threads.t[i].rxq # NULL
        /\ threads.t[i].rxq.mem \notin threads.heap
     THEN /\ threads' = [threads EXCEPT
                           !.lock = i,
                           !.t[i] = [cb_idle(@.calls) EXCEPT !.pc = "priv_unlock"]]
          /\ asserts_ok' = FALSE
          /\ UNCHANGED priv
     ELSE \E r \in CbOutcomes(priv, threads.heap, threads.t[i]) :
            /\ LocksFirst(r.c.lock)
            /\ priv' = r.c.priv
            /\ asserts_ok' = r.c.ok
            /\ threads' = [threads EXCEPT
                             !.lock = i,
                             !.heap = IF IsRxPriv(priv) THEN r.c.live ELSE @,
                             !.t[i] = cb_after(
                                        [@ EXCEPT !.calls = IF threads.t[i].pc = "idle"
                                                            THEN @ + 1 ELSE @],
                                        r.c.lock)]

\* a callback that returns without having touched the lock
CbReturn(i) ==
  /\ asserts_ok
  /\ threads.t[i].pc = "idle"
  /\ threads.t[i].calls < MaxCalls
  /\ \E r \in CbOutcomes(priv, threads.heap, threads.t[i]) :
       /\ r.c.lock = <<>>
       /\ priv' = r.c.priv
       /\ asserts_ok' = r.c.ok
       /\ threads' = [threads EXCEPT
                        !.heap = IF IsRxPriv(priv) THEN r.c.live ELSE @,
                        !.t[i] = cb_idle(@.calls + 1)]

\* the last priv_unlock() of the callback, and its return
CbUnlock(i) ==
  /\ threads.lock = i
  /\ threads.t[i].pc = "priv_unlock"
  /\ threads' = [threads EXCEPT !.lock = 0, !.t[i] = cb_idle(@.calls)]
  /\ UNCHANGED <<priv, asserts_ok>>

NextCb ==
  \E i \in Threads :
    \/ CbSetupRead(i)
    \/ CbLock(i)
    \/ CbReturn(i)
    \/ CbUnlock(i)

\* a thread that is inside a callback goes on running to its return
SpecCb == InitCb /\ [][NextCb]_vars /\ WF_vars(\E i \in Threads : CbUnlock(i))

\* what each callback, with any arguments and any refused call, does to the
\* device lock in device state p
CbLockTraces(p) ==
  IF IsRxPriv(p)
  THEN {r.c.lock : r \in UNION {RxOutcomes(p, "rx_queue_setup", idx, desc, 0) :
                                  idx \in 0 .. p.rxqs_n, desc \in Descs}}
       \cup {CbReleaseOf(p, PrivObjs(p), idx).lock : idx \in DOMAIN p.rxqs}
  ELSE {r.c.lock : r \in UNION {Outcomes(p, op, mac_addr, index, {}, 0) :
                                  op \in FilterOps, mac_addr \in Addrs,
                                  index \in 0 .. MLX5_MAX_MAC_ADDRESSES}}

\* C39 as stated: every configuration callback acquires the device lock
\* once and releases it exactly once on every return path, early error
\* returns included, so that no callback returns holding the lock.
C39_EveryPathLocksOnce ==
  /\ \A lock \in CbLockTraces(priv) : lock = <<"lock", "unlock">>
  /\ \A i \in Threads : threads.t[i].pc # "priv_unlock" => threads.lock # i

\* the same, mlx5_rx_queue_release(NULL) excepted, which returns before
\* priv_lock()
C39_PathsBalanced ==
  /\ IF IsRxPriv(priv)
     THEN /\ \A idx \in 0 .. priv.rxqs_n, desc \in Descs :
               \A r \in RxOutcomes(priv, "rx_queue_setup", idx, desc, 0) :
                 r.c.lock = <<"lock", "unlock">>
          /\ \A idx \in DOMAIN priv.rxqs :
               CbReleaseOf(priv, PrivObjs(priv), idx).lock =
                 IF priv.rxqs[idx] = NULL THEN <<>> ELSE <<"lock", "unlock">>
     ELSE \A lock \in CbLockTraces(priv) : lock = <<"lock", "unlock">>
  /\ \A i \in Threads : threads.t[i].pc # "priv_unlock" => threads.lock # i

\* C39 (amended): every callback takes the device lock once and releases it
\* exactly once on every return path, except mlx5_rx_queue_release(NULL)
\* which never takes it; no thread is outside a callback while it holds the
\* lock, and a lock that is held is eventually released, so that a caller
\* waiting in priv_lock() can acquire it.
C39_LockAlwaysReleased ==
  /\ []C39_PathsBalanced
  /\ (threads.lock # 0) ~> (threads.lock = 0)

\* a thread has returned from a callback and another thread holds the lock
\* since, on a device with an RX queue slot that is empty
C39_Witness ==
  /\ asserts_ok
  /\ IsRxPriv(priv)
  /\ \E i, j \in Threads :
       /\ i # j
       /\ threads.t[i].pc = "idle" /\ threads.t[i].calls >= 1
       /\ threads.lock = j /\ threads.t[j].pc = "priv_unlock"
       /\ \E idx \in DOMAIN priv.rxqs : priv.rxqs[idx] = NULL

\* ------------------------------------------------ the receive burst routine
\* A stopped device on which mlx5_rx_queue_setup() is called and succeeds
\* every time; between the calls the application may change
\* dev->data->dev_conf.rxmode, which every rxq_setup() reads afresh.
InitSetups ==
  /\ \E rxqs_n \in 1 .. MaxRxqs, caps \in HwCaps, conf \in DevConfs :
       priv = rx_priv_init(rxqs_n, MaxIndTableSize, caps, conf)
  /\ asserts_ok = TRUE
  /\ threads = NoThreads

RxQueueSetupOk ==
  /\ asserts_ok
  /\ \E idx \in 0 .. MaxRxqs, desc \in Descs :
       \E r \in RxOutcomes(priv, "rx_queue_setup", idx, desc, 0) :
         /\ r.ret = 0
         /\ r.c.ok
         /\ priv' = r.c.priv
         /\ UNCHANGED <<asserts_ok, threads>>

SpecSetups == InitSetups /\ [][RxQueueSetupOk \/ SetRxMode]_vars

\* C40 as stated: after any sequence of successful mlx5_rx_queue_setup()
\* calls, dev->rx_pkt_burst is the scattered routine exactly when the ring
\* of each configured RX queue is scattered.
C40_BurstMatchesEveryQueue ==
  \A idx \in RxqIdx(priv) :
    (priv.rx_pkt_burst = "mlx5_rx_burst_sp") <=> priv.rxqs[idx].s.sp

\* what the code does establish: dev->rx_pkt_burst follows the queue that
\* was set up last, so that some configured queue agrees with it
C40_BurstMatchesSomeQueue ==
  RxqIdx(priv) # {} =>
    \E idx \in RxqIdx(priv) :
      (priv.rx_pkt_burst = "mlx5_rx_burst_sp") <=> priv.rxqs[idx].s.sp

====
